---- MODULE Spec2Model ----
(***************************************************************************)
(* A model of the unstorage engine (src/src/storage.ts), its key utilities *)
(* (src/src/utils.ts) and the in-memory driver (src/src/drivers/memory.ts).*)
(*                                                                         *)
(* Strings the code inspects character by character (keys, bases) are      *)
(* sequences of one-character strings; JavaScript objects used as maps     *)
(* (context.mounts, context.unwatch) are insertion-ordered sequences of    *)
(* [k, v] entries, because the code iterates them with for-in.             *)
(***************************************************************************)
EXTENDS Integers, Sequences, FiniteSets, Bags, TLC

VARIABLES
  mounts,          \* context.mounts: ordered map  base -> driver
  mountpoints,     \* context.mountpoints: bases, longest first
  watching,        \* context.watching
  unwatch,         \* context.unwatch: ordered map  base -> unwatch handle
  watchListeners,  \* context.watchListeners: sequence of callbacks
  data,            \* the Map of every memory driver instance: driver -> ordered map key -> value
  closures,        \* callbacks whose unwatch function watch() has returned
  tasks,           \* asynchronous continuations that are still pending (a bag)
  last,            \* the most recent call on the storage and its outcome
  watcher,         \* the drivers whose own watcher is running and reports to onChange
  emitted,         \* driver -> the number of events its watcher has reported
  received,        \* callback -> the calls it has received, oldest first
  stopped          \* callbacks whose registration was ended by an unwatch call

vars == <<mounts, mountpoints, watching, unwatch, watchListeners, closures, data, tasks, last,
          watcher, emitted, received, stopped>>

\* what the listeners have seen, and the bookkeeping of ended registrations
watchLog == <<emitted, received, stopped>>

context == <<mounts, mountpoints, watching, unwatch, watchListeners>>

-----------------------------------------------------------------------------
(* Bounds *)

MaxTasks == 1        \* pending asynchronous continuations
MaxItems == 2        \* entries stored over all drivers
MaxEvents == 2       \* events reported by one driver's watcher

-----------------------------------------------------------------------------
(* Strings as sequences of characters *)

Min(S) == CHOOSE x \in S : \A y \in S : x <= y

StartsWith(s, p) == Len(p) <= Len(s) /\ SubSeq(s, 1, Len(p)) = p

Slice(s, n) == SubSeq(s, n + 1, Len(s))

\* s occurs in t
Contains(t, s) == \E i \in 0..(Len(t) - Len(s)) : SubSeq(t, i + 1, i + Len(s)) = s

EndsWith(t, s) == Len(s) <= Len(t) /\ SubSeq(t, Len(t) - Len(s) + 1, Len(t)) = s

LastChar(s) == IF Len(s) = 0 THEN "" ELSE s[Len(s)]

\* key.split("?")[0]
SplitQuery(s) ==
  LET qs == {i \in 1..Len(s) : s[i] = "?"}
  IN  IF qs = {} THEN s ELSE SubSeq(s, 1, Min(qs) - 1)

\* .replace(/[/\\]/g, ":")
ReplaceSlashes(s) == [i \in 1..Len(s) |-> IF s[i] \in {"/", "\\"} THEN ":" ELSE s[i]]

\* .replace(/:+/g, ":")
CollapseColons(s) ==
  LET F[i \in 0..Len(s)] ==
        IF i = 0 THEN <<>>
        ELSE IF s[i] = ":" /\ i > 1 /\ s[i-1] = ":" THEN F[i-1]
        ELSE Append(F[i-1], s[i])
  IN  F[Len(s)]

\* .replace(/^:|:$/g, "")
TrimColons(s) ==
  LET a == IF Len(s) > 0 /\ s[1] = ":" THEN Slice(s, 1) ELSE s
  IN  IF Len(a) > 0 /\ a[Len(a)] = ":" THEN SubSeq(a, 1, Len(a) - 1) ELSE a

\* mutant: the colons at the ends are dropped before runs of colons are
\* collapsed
normalizeKey_TrimFirst(key) ==
  IF key = <<>> THEN <<>>
  ELSE CollapseColons(TrimColons(ReplaceSlashes(SplitQuery(key))))

normalizeKey(key) ==
  IF key = <<>> THEN <<>>
  ELSE TrimColons(CollapseColons(ReplaceSlashes(SplitQuery(key))))

joinKeys(a, b) == normalizeKey(a \o <<":">> \o b)

normalizeBaseKey(base) ==
  LET b == normalizeKey(base)
  IN  IF b = <<>> THEN <<>> ELSE Append(b, ":")

-----------------------------------------------------------------------------
(* JavaScript objects used as maps: insertion-ordered [k, v] entries *)

Has(m, k) == \E i \in 1..Len(m) : m[i].k = k

Get(m, k) == m[CHOOSE i \in 1..Len(m) : m[i].k = k].v

Put(m, k, v) ==
  IF Has(m, k)
  THEN [i \in 1..Len(m) |-> IF m[i].k = k THEN [k |-> k, v |-> v] ELSE m[i]]
  ELSE Append(m, [k |-> k, v |-> v])

Del(m, k) == SelectSeq(m, LAMBDA e : e.k # k)

KeysOf(m) == [i \in 1..Len(m) |-> m[i].k]

Range(s) == {s[i] : i \in 1..Len(s)}

RemoveAt(s, i) == SubSeq(s, 1, i - 1) \o SubSeq(s, i + 1, Len(s))

-----------------------------------------------------------------------------
(* Drivers *)

Null == 0                 \* a missing driver argument
RootDriver == 1           \* options.driver || memory()
UserDrivers == {2}        \* memory() instances the caller creates and mounts
WatchDrivers == {3}       \* drivers with a watch method (the fs driver)
BatchDrivers == {4}       \* drivers that also offer getItems and setItems
ReadOnlyDrivers == {5}    \* drivers with hasItem, getItem and getKeys only
LayerDrivers == {6, 7, 8} \* memory() instances that are the layers of an overlay
ReadOnlyFsDrivers == {9}  \* fs drivers created with readOnly: true
FailingWatchDrivers == {10} \* drivers whose async watch method throws
FailingTeardownDrivers == {11} \* drivers whose unwatch function and dispose method reject
FailingBackendDrivers == {12} \* drivers whose getKeys and clear methods throw
Drivers ==
  {RootDriver} \cup UserDrivers \cup WatchDrivers \cup BatchDrivers \cup ReadOnlyDrivers
    \cup LayerDrivers \cup ReadOnlyFsDrivers \cup FailingWatchDrivers
    \cup FailingTeardownDrivers \cup FailingBackendDrivers

\* driver.getItems, driver.setItems are defined
HasGetItems(d) == d \in BatchDrivers
HasSetItems(d) == d \in BatchDrivers

\* driver.setItemRaw is defined: the memory driver and the fs driver have it
HasSetItemRaw(d) == d \in Drivers \ ReadOnlyDrivers

\* driver.setItem, driver.removeItem, driver.clear are defined
HasSetItem(d) == d \in Drivers \ ReadOnlyDrivers
HasRemoveItem(d) == d \in Drivers \ ReadOnlyDrivers
HasClear(d) == d \in Drivers \ ReadOnlyDrivers

\* driver.getMeta is defined: the fs driver has it, the memory driver has not
HasGetMeta(d) == d \in WatchDrivers \cup ReadOnlyFsDrivers

\* asyncCall(fn, ...args): the error the returned promise is rejected with when
\* fn throws; calling an fn that is undefined throws a TypeError
asyncCall(defined) == IF defined THEN "" ELSE "TypeError"

\* driver.getKeys(base) throws, driver.clear(base) throws
GetKeysFails(d) == d \in FailingBackendDrivers
ClearFails(d) == d \in FailingBackendDrivers

\* driver.watch is defined
HasWatch(d) ==
  d \in WatchDrivers \cup ReadOnlyFsDrivers \cup FailingWatchDrivers \cup FailingTeardownDrivers

\* the promise driver.watch(onChange) returns is rejected
WatchFails(d) == d \in FailingWatchDrivers

\* the unwatch function obtained for a driver: the driver's own for a driver
\* with a watch method, the no-op `() => {}` for the others
Handle(d) == [drv |-> d]

\* driver.watch(onChange): the driver's watcher runs, one per driver instance
WatchCall(d, w) == IF HasWatch(d) /\ ~WatchFails(d) THEN w \cup {d} ELSE w

\* the promise the driver's unwatch function returns is rejected, and so is
\* the promise of its dispose method
TeardownFails(d) == d \in FailingTeardownDrivers

\* calling an unwatch function: the driver's watcher is closed, unless the
\* function fails
InvokeHandle(h, w) == IF TeardownFails(h.drv) THEN w ELSE w \ {h.drv}

\* what the call of an unwatch function returns: the driver's own is an async
\* function, the no-op returns undefined
ReturnsPromise(h) == HasWatch(h.drv)

-----------------------------------------------------------------------------
(* Inputs *)

\* raw base arguments of mount and unmount
TestBases == { <<>>, <<"/", "m">>, <<"m", ":", "x">> }

Callbacks == {"cb1"}

\* callbacks of watch where events are followed to the listeners
Subscribers == {"cb1", "cb2"}

-----------------------------------------------------------------------------
(* Mount table *)

\* mutant: the list is not sorted after the push
SortByLengthDesc_Unsorted(s) == s

\* mountpoints.sort((a, b) => b.length - a.length), a stable sort
RECURSIVE SortByLengthDesc(_)
SortByLengthDesc(s) ==
  IF s = <<>> THEN <<>>
  ELSE LET rest == SortByLengthDesc(SubSeq(s, 1, Len(s) - 1))
           x == s[Len(s)]
           \* elements at least as long as x stay in front of it
           keep == SelectSeq(rest, LAMBDA e : Len(e) >= Len(x))
           tail == SelectSeq(rest, LAMBDA e : Len(e) < Len(x))
       IN  keep \o <<x>> \o tail

\* mutant: the scan returns the last base that matches instead of the first
getMount_LastMatch(key) ==
  LET hits == {i \in 1..Len(mountpoints) : StartsWith(key, mountpoints[i])}
      at == CHOOSE i \in hits : \A j \in hits : j <= i
  IN  [base |-> mountpoints[at],
       relativeKey |-> Slice(key, Len(mountpoints[at])),
       driver |-> IF Has(mounts, mountpoints[at]) THEN Get(mounts, mountpoints[at]) ELSE Null]

getMount(key) ==
  LET hits == {i \in 1..Len(mountpoints) : StartsWith(key, mountpoints[i])}
  IN  IF hits # {}
      THEN LET base == mountpoints[Min(hits)]
           IN  [base |-> base,
                relativeKey |-> Slice(key, Len(base)),
                driver |-> IF Has(mounts, base) THEN Get(mounts, base) ELSE Null]
      ELSE [base |-> <<>>, relativeKey |-> key,
            driver |-> IF Has(mounts, <<>>) THEN Get(mounts, <<>>) ELSE Null]

getMounts(base, includeParent) ==
  LET sel == SelectSeq(mountpoints,
                       LAMBDA mp : \/ StartsWith(mp, base)
                                   \/ (includeParent /\ StartsWith(base, mp)))
  IN  [i \in 1..Len(sel) |->
         [relativeBase |-> IF Len(base) > Len(sel[i]) THEN Slice(base, Len(sel[i])) ELSE <<>>,
          mountpoint |-> sel[i],
          driver |-> IF Has(mounts, sel[i]) THEN Get(mounts, sel[i]) ELSE Null]]

Init ==
  /\ mounts = << [k |-> <<>>, v |-> RootDriver] >>
  /\ mountpoints = << <<>> >>
  /\ watching = FALSE
  /\ unwatch = <<>>
  /\ watchListeners = <<>>
  /\ closures = {}
  /\ data = [d \in Drivers |-> <<>>]
  /\ tasks = EmptyBag
  /\ last = [op |-> "createStorage"]
  /\ watcher = {}
  /\ emitted = [d \in Drivers |-> 0]
  /\ received = [cb \in Subscribers |-> <<>>]
  /\ stopped = {}

-----------------------------------------------------------------------------
(* Asynchronous continuations.  A call runs synchronously up to its first  *)
(* await; what is left of it is a task that any later step may resume.     *)
(*   startWatch : the for-in loop of startWatch, suspended in               *)
(*                `context.unwatch[cur] = await watch(...)`                 *)
(*   stopWatch  : the for-in loop of stopWatch, suspended in                *)
(*                `await context.unwatch[cur]()`                            *)
(*   mountWatch : the .then() of the watch() call made by mount             *)
(*   dispose    : dispose() after `await stopWatch()`                       *)
(***************************************************************************)

\* the first key of a for-in snapshot that is still a property of the object
\* being iterated; a detached object (one the context no longer refers to)
\* keeps every key it had
RECURSIVE SkipDeleted(_, _, _)
SkipDeleted(todo, obj, detached) ==
  IF todo = <<>> THEN <<>>
  ELSE IF detached \/ Has(obj, Head(todo)) THEN todo
  ELSE SkipDeleted(Tail(todo), obj, detached)

\* watch(driver, onChange, base): the memory driver has no watch method, so
\* the result is a no-op unwatch function
watchDriver(d) == Handle(d)

\* tasks as they are once `context.unwatch = {}` replaced the unwatch object:
\* a pending `context.unwatch[cur] = await ...` still writes to the old object
\* and a stopWatch loop goes on iterating the keys of the old object
DetachUnwatchIn(t) ==
  IF t.type = "startWatch" THEN [t EXCEPT !.lhsLive = FALSE]
  ELSE IF t.type = "stopWatch" /\ ~t.detached
    THEN [t EXCEPT !.detached = TRUE,
                   !.todo = SelectSeq(t.todo, LAMBDA b : Has(unwatch, b))]
  ELSE t

DetachUnwatch(ts) == BagOfAll(DetachUnwatchIn, ts)

\* tasks as they are once `context.mounts = {...}` replaced the mounts object
DetachMountsIn(t) ==
  IF t.type = "startWatch" /\ ~t.detached
    THEN [t EXCEPT !.detached = TRUE,
                   !.todo = SelectSeq(t.todo, LAMBDA b : Has(mounts, b))]
  ELSE t

DetachMounts(ts) == BagOfAll(DetachMountsIn, ts)

\* what awaits stopWatch(): nothing, or the rest of dispose()
Continuation(then) ==
  IF then = "dispose" THEN SetToBag({[type |-> "dispose", pc |-> "drivers"]}) ELSE EmptyBag

AddTask(ts, t) == ts (+) SetToBag({t})

DropTask(ts, t) == ts (-) SetToBag({t})

\* startWatch(), from `context.watching = true` to its first await.  The
\* assignment target context.unwatch[mountpoint] is evaluated before watch()
\* is called and awaited.
startWatch(ts) ==
  LET keys == KeysOf(mounts)
  IN  /\ watching' = TRUE
      /\ watcher' = WatchCall(Get(mounts, Head(keys)), watcher)
      /\ tasks' = AddTask(ts, [type |-> "startWatch", cur |-> Head(keys),
                              h |-> watchDriver(Get(mounts, Head(keys))),
                              todo |-> Tail(keys), detached |-> FALSE, lhsLive |-> TRUE])

\* stopWatch() up to its first await; `then` is what awaits its promise and
\* ts the tasks already pending
stopWatch(then, ts) ==
  IF ~watching
  THEN /\ tasks' = ts (+) Continuation(then)
       /\ UNCHANGED <<watching, unwatch, watcher>>
  ELSE IF unwatch = <<>>
  THEN \* the loop body never runs
       /\ unwatch' = <<>>
       /\ watching' = FALSE
       /\ tasks' = DetachUnwatch(ts) (+) Continuation(then)
       /\ UNCHANGED watcher
  ELSE \* the first handle is invoked, then the loop awaits it
       /\ watcher' = InvokeHandle(unwatch[1].v, watcher)
       /\ tasks' = AddTask(ts, [type |-> "stopWatch", cur |-> unwatch[1].k,
                               h |-> unwatch[1].v,
                               todo |-> Tail(KeysOf(unwatch)), detached |-> FALSE,
                               then |-> then])
       /\ UNCHANGED <<watching, unwatch>>

-----------------------------------------------------------------------------
(* mount, unmount *)

\* mutant: mount does not look for the base in context.mounts
MountThrows_NoLookup(base, driver) == base = <<>> \/ driver = Null

\* the conditions under which mount throws
MountThrows(base, driver) == base = <<>> \/ Has(mounts, base) \/ driver = Null

\* the message of the Error mount throws: the base is checked first
MountError(base, driver) ==
  IF base = <<>> \/ Has(mounts, base)
  THEN "Cannot mount to an existing mountpoint"
  ELSE "Cannot mount empty driver"

\* mutant: unmount accepts the root
UnmountThrows_Never(base) == FALSE

\* the condition under which unmount throws
UnmountThrows(base) == base = <<>>

\* mutant: unmount goes on for a base that is not mounted
UnmountIgnores_Never(base) == FALSE

\* the condition under which unmount returns without doing anything
UnmountIgnores(base) == ~Has(mounts, base)

\* mountpoints.splice(mountpoints.indexOf(base), 1); indexOf is -1 for a
\* missing element and splice(-1, 1) removes the last one
SpliceOut(s, x) ==
  LET at == {i \in 1..Len(s) : s[i] = x}
  IN  IF at = {} THEN SubSeq(s, 1, Len(s) - 1) ELSE RemoveAt(s, Min(at))

Mount(rawBase, driver) ==
  LET base == normalizeBaseKey(rawBase)
  IN  IF MountThrows(base, driver)
      THEN /\ last' = [op |-> "mount", err |-> MountError(base, driver)]
           /\ UNCHANGED <<mounts, mountpoints, watching, unwatch, watchListeners,
                          closures, data, tasks, watcher, watchLog>>
      ELSE /\ mounts' = Put(mounts, base, driver)
           /\ mountpoints' = SortByLengthDesc(Append(mountpoints, base))
           /\ tasks' = IF watching
                       THEN AddTask(tasks, [type |-> "mountWatch", base |-> base,
                                            h |-> watchDriver(driver)])
                       ELSE tasks
           /\ watcher' = IF watching THEN WatchCall(driver, watcher) ELSE watcher
           /\ BagCardinality(tasks') <= MaxTasks
           /\ last' = [op |-> "mount", err |-> ""]
           /\ UNCHANGED <<watching, unwatch, watchListeners, closures, data, watchLog>>

\* mutant: the handle's result is not used, so unmount always goes on
UnwatchCallThrows_Never(base) == FALSE

\* context.unwatch[base]().catch(console.error) throws a TypeError when the
\* handle returns undefined
UnwatchCallThrows(base) ==
  watching /\ Has(unwatch, base) /\ ~ReturnsPromise(Get(unwatch, base))

Unmount(rawBase) ==
  LET base == normalizeBaseKey(rawBase)
  IN  IF UnmountThrows(base)
      THEN /\ last' = [op |-> "unmount", err |-> "Cannot unmount root"]
           /\ UNCHANGED <<mounts, mountpoints, watching, unwatch, watchListeners,
                          closures, data, tasks, watcher, watchLog>>
      ELSE IF UnmountIgnores(base)
      THEN /\ last' = [op |-> "unmount", err |-> ""]
           /\ UNCHANGED <<mounts, mountpoints, watching, unwatch, watchListeners,
                          closures, data, tasks, watcher, watchLog>>
      ELSE IF UnwatchCallThrows(base)
      THEN \* the handle was invoked; nothing is deleted
           /\ watcher' = InvokeHandle(Get(unwatch, base), watcher)
           /\ last' = [op |-> "unmount", err |-> "TypeError"]
           /\ UNCHANGED <<mounts, mountpoints, watching, unwatch, watchListeners,
                          closures, data, tasks, watchLog>>
      ELSE \* the handle, if one is stored, is invoked and its entry deleted
           /\ unwatch' = IF watching /\ Has(unwatch, base) THEN Del(unwatch, base) ELSE unwatch
           /\ watcher' = IF watching /\ Has(unwatch, base)
                         THEN InvokeHandle(Get(unwatch, base), watcher)
                         ELSE watcher
           /\ mounts' = Del(mounts, base)
           /\ mountpoints' = SpliceOut(mountpoints, base)
           /\ last' = [op |-> "unmount", err |-> ""]
           /\ UNCHANGED <<watching, watchListeners, closures, data, tasks, watchLog>>

-----------------------------------------------------------------------------
(* watch, unwatch *)

\* a callback is registered at most once at a time
\* storage.watch(cb), called while fewer than cap calls are pending
WatchWithin(cb, cap) ==
  /\ cb \notin Range(watchListeners)
  /\ watchListeners' = Append(watchListeners, cb)
  /\ closures' = closures \cup {cb}
  /\ stopped' = stopped \ {cb}
  /\ IF ~watching
     THEN startWatch(tasks)
     ELSE UNCHANGED <<watching, tasks, watcher>>
  /\ BagCardinality(tasks') <= cap
  /\ last' = [op |-> "watch", cb |-> cb]
  /\ UNCHANGED <<mounts, mountpoints, unwatch, data, emitted, received>>

Watch(cb) == WatchWithin(cb, MaxTasks)

\* mutant: the last listener is removed, whichever the callback is
SpliceListener_Pop(ls, cb) == SubSeq(ls, 1, Len(ls) - 1)

\* watchListeners.splice(watchListeners.indexOf(callback), 1)
SpliceListener(ls, cb) == SpliceOut(ls, cb)

\* the function that watch(cb) resolved with
UnwatchHandle(cb) ==
  /\ cb \in closures
  /\ watchListeners' = SpliceListener(watchListeners, cb)
  /\ stopped' = stopped \cup {cb}
  /\ IF watchListeners' = <<>> /\ watching
     THEN stopWatch("", tasks)
     ELSE UNCHANGED <<watching, unwatch, tasks, watcher>>
  /\ BagCardinality(tasks') <= MaxTasks
  /\ last' = [op |-> "unwatchHandle", cb |-> cb]
  /\ UNCHANGED <<mounts, mountpoints, closures, data, emitted, received>>

\* storage.unwatch()
Unwatch ==
  /\ watchListeners' = <<>>
  /\ stopped' = stopped \cup Range(watchListeners)
  /\ stopWatch("", tasks)
  /\ BagCardinality(tasks') <= MaxTasks
  /\ last' = [op |-> "unwatch"]
  /\ UNCHANGED <<mounts, mountpoints, closures, data, emitted, received>>

-----------------------------------------------------------------------------
(* dispose *)

\* storage.dispose() up to its first await, called while fewer than cap
\* calls are pending
DisposeWithin(cap) ==
  /\ stopWatch("dispose", tasks)
  /\ BagCardinality(tasks') <= cap
  /\ last' = [op |-> "dispose"]
  /\ UNCHANGED <<mounts, mountpoints, watchListeners, closures, data, watchLog>>

Dispose == DisposeWithin(MaxTasks)

-----------------------------------------------------------------------------
(* Resuming a pending continuation *)

Resumed(t) == [op |-> "resume"]

\* a continuation that resumes with the rejection of driver.watch: the
\* .catch(console.error) of the caller logs it
Logged(t) == [op |-> "console.error", base |-> IF t.type = "startWatch" THEN t.cur ELSE t.base]

\* stopWatch resumes with the rejection of an unwatch function and rejects:
\* dispose() catches and logs that, the unwatch function of watch() and
\* unwatch() hand it to their caller
Rejected(t) == [op |-> "reject", base |-> t.cur, caught |-> t.then = "dispose"]

\* startWatch resumes: the awaited handle is stored, then the loop goes on
\* with the next key of its snapshot that was not deleted
StartWatchStep(t) ==
  LET todo == SkipDeleted(t.todo, mounts, t.detached)
  IN  /\ t.type = "startWatch"
      /\ IF WatchFails(t.h.drv)
         THEN \* the await throws: nothing is stored and the loop ends
              /\ tasks' = DropTask(tasks, t)
              /\ last' = Logged(t)
              /\ UNCHANGED <<unwatch, watcher>>
         ELSE /\ unwatch' = IF t.lhsLive THEN Put(unwatch, t.cur, t.h) ELSE unwatch
              /\ IF todo = <<>> \/ ~Has(mounts, Head(todo))
                 THEN \* done, or context.mounts[key] is undefined: a TypeError
                      \* that the caller's .catch(console.error) logs
                      /\ tasks' = DropTask(tasks, t)
                      /\ UNCHANGED watcher
                 ELSE /\ tasks' = AddTask(DropTask(tasks, t),
                                          [type |-> "startWatch", cur |-> Head(todo),
                                           h |-> watchDriver(Get(mounts, Head(todo))),
                                           todo |-> Tail(todo), detached |-> t.detached,
                                           lhsLive |-> TRUE])
                      /\ watcher' = WatchCall(Get(mounts, Head(todo)), watcher)
              /\ last' = Resumed(t)
      /\ UNCHANGED <<mounts, mountpoints, watching, watchListeners, closures, data, watchLog>>

\* stopWatch resumes: the next handle is invoked and awaited; after the last
\* one the handle map is replaced and watching is switched off
StopWatchStep(t) ==
  LET todo == SkipDeleted(t.todo, unwatch, t.detached)
      others == DropTask(tasks, t)
  IN  /\ t.type = "stopWatch"
      /\ IF TeardownFails(t.h.drv)
         THEN \* the await throws: the loop ends, the handle map and the
              \* watching flag stay as they are
              /\ tasks' = others (+) Continuation(t.then)
              /\ last' = Rejected(t)
              /\ UNCHANGED <<unwatch, watching, watcher>>
         ELSE IF todo = <<>>
         THEN /\ unwatch' = <<>>
              /\ watching' = FALSE
              /\ tasks' = DetachUnwatch(others) (+) Continuation(t.then)
              /\ last' = Resumed(t)
              /\ UNCHANGED watcher
         ELSE IF ~Has(unwatch, Head(todo))
         THEN \* context.unwatch[key] is undefined: calling it is a TypeError
              \* and stopWatch rejects
              /\ tasks' = others (+) Continuation(t.then)
              /\ last' = Resumed(t)
              /\ UNCHANGED <<unwatch, watching, watcher>>
         ELSE /\ tasks' = AddTask(others, [t EXCEPT !.cur = Head(todo), !.todo = Tail(todo),
                                                    !.h = Get(unwatch, Head(todo))])
              /\ watcher' = InvokeHandle(Get(unwatch, Head(todo)), watcher)
              /\ last' = Resumed(t)
              /\ UNCHANGED <<unwatch, watching>>
      /\ UNCHANGED <<mounts, mountpoints, watchListeners, closures, data, watchLog>>

\* the .then() of mount's watch(driver, onChange, base)
MountWatchStep(t) ==
  /\ t.type = "mountWatch"
  /\ IF WatchFails(t.h.drv)
     THEN \* the .then() is passed over
          /\ last' = Logged(t)
          /\ UNCHANGED unwatch
     ELSE /\ unwatch' = Put(unwatch, t.base, t.h)
          /\ last' = Resumed(t)
  /\ tasks' = DropTask(tasks, t)
  /\ UNCHANGED <<mounts, mountpoints, watching, watchListeners, closures, data,
                 watcher, watchLog>>

\* the drivers that are mounted
Mounted == {mounts[i].v : i \in 1..Len(mounts)}

\* dispose resumes after stopWatch: every mounted driver is disposed (the
\* memory driver clears its Map, the fs driver closes its watcher), and after
\* that await the context is reset
DisposeStep(t) ==
  /\ t.type = "dispose"
  /\ IF t.pc = "drivers"
     THEN /\ data' = [d \in Drivers |->
                        IF d \in Mounted /\ ~HasWatch(d) THEN <<>> ELSE data[d]]
          /\ watcher' = watcher \ {d \in Mounted : ~TeardownFails(d)}
          /\ tasks' = AddTask(DropTask(tasks, t), [t EXCEPT !.pc = "reset"])
          /\ UNCHANGED <<mounts, mountpoints, unwatch, watchListeners>>
     ELSE /\ mounts' = << [k |-> <<>>, v |-> RootDriver] >>
          /\ mountpoints' = << <<>> >>
          /\ watchListeners' = <<>>
          /\ unwatch' = <<>>
          /\ data' = [data EXCEPT ![RootDriver] = <<>>]
          /\ tasks' = DetachMounts(DetachUnwatch(DropTask(tasks, t)))
          /\ UNCHANGED watcher
  /\ last' = Resumed(t)
  /\ UNCHANGED <<watching, closures, watchLog>>

-----------------------------------------------------------------------------
(* The engine's mount table, watch state and life cycle *)

Next ==
  \/ \E b \in TestBases, d \in UserDrivers \cup {Null} : Mount(b, d)
  \/ \E b \in TestBases : Unmount(b)
  \/ \E cb \in Callbacks : Watch(cb)
  \/ \E cb \in Callbacks : UnwatchHandle(cb)
  \/ Unwatch
  \/ Dispose
  \/ \E t \in BagToSet(tasks) : StartWatchStep(t)
  \/ \E t \in BagToSet(tasks) : StopWatchStep(t)
  \/ \E t \in BagToSet(tasks) : MountWatchStep(t)
  \/ \E t \in BagToSet(tasks) : DisposeStep(t)

Spec == Init /\ [][Next]_vars

\* the calls that may be pending at once while dispose() runs
MaxCalls == 2

\* The engine disposed of while listeners are registered and taken off
NextDispose ==
  \/ \E b \in {<<"/", "m">>}, d \in UserDrivers : Mount(b, d)
  \/ \E cb \in Callbacks : WatchWithin(cb, MaxCalls)
  \/ \E cb \in Callbacks : UnwatchHandle(cb)
  \/ DisposeWithin(MaxCalls)
  \/ \E t \in BagToSet(tasks) : StartWatchStep(t)
  \/ \E t \in BagToSet(tasks) : StopWatchStep(t)
  \/ \E t \in BagToSet(tasks) : MountWatchStep(t)
  \/ \E t \in BagToSet(tasks) : DisposeStep(t)

SpecDispose == Init /\ [][NextDispose]_vars

-----------------------------------------------------------------------------
(* Values.  A value is a record [t, v]: its JavaScript type and its text   *)
(* (the JSON text of an object, the literal of a primitive, the characters *)
(* of a string).                                                           *)

Val(t, v) == [t |-> t, v |-> v]

NullValue == Val("null", "null")

Undefined == [t |-> "undefined"]

Num(n) == [t |-> "number", v |-> n]

Str(s) == [t |-> "string", v |-> s]

\* texts the tolerant parser reads as a number, and as a JSON object
NumberLiterals == {"0", "1", "-1", "1.5"}
JsonTexts == {"{\"n\":1}"}

\* destr(value): a value that is not a string is returned as it is; a string
\* is returned as the primitive or the JSON value it is the text of, and as
\* itself when it is neither
destr(value) ==
  IF value.t # "string" THEN value
  ELSE IF value.v \in {"true", "false"} THEN Val("boolean", value.v)
  ELSE IF value.v = "null" THEN NullValue
  ELSE IF value.v \in NumberLiterals THEN Val("number", value.v)
  ELSE IF value.v \in JsonTexts THEN Val("object", value.v)
  ELSE value

-----------------------------------------------------------------------------
(* The memory driver: a Map, here an insertion-ordered map *)

memoryHasItem(m, key) == Has(m, key)

\* data.get(key) ?? null
memoryGetItem(m, key) == IF Has(m, key) THEN Get(m, key) ELSE NullValue

\* mutant: a key that is already stored keeps its value
memorySetItemRaw_KeepsFirst(m, key, value) == IF Has(m, key) THEN m ELSE Put(m, key, value)

\* data.set(key, value)
memorySetItemRaw(m, key, value) == Put(m, key, value)

memoryRemoveItem(m, key) == Del(m, key)

\* [...data.keys()]: the base argument is not looked at
memoryGetKeys(m) == KeysOf(m)

\* data.clear(): the base argument is not looked at
memoryClear(m) == <<>>

-----------------------------------------------------------------------------
(* Key filters *)

\* the number of ":" in a key
Colons(key) == Cardinality({i \in 1..Len(key) : key[i] = ":"})

\* filterKeyByDepth(key, depth).  `substrCount <= depth` with a string for
\* depth compares with ToNumber(depth): 0 for "", and NaN, for which every
\* comparison is false, for a text that is no numeric literal (every
\* non-empty normalized base, since it ends in ":")
filterKeyByDepth(key, depth) ==
  IF depth.t = "undefined" THEN TRUE
  ELSE IF depth.t = "number" THEN Colons(key) <= depth.v
  ELSE depth.v = <<>> /\ Colons(key) <= 0

\* mutant: keys that end in "$" are let through
filterKeyByBase_KeepsDollar(key, base) == base # <<>> => StartsWith(key, base)

filterKeyByBase(key, base) ==
  IF base # <<>>
  THEN StartsWith(key, base) /\ LastChar(key) # "$"
  ELSE LastChar(key) # "$"

\* keys.flat()
RECURSIVE Flatten(_)
Flatten(ss) == IF ss = <<>> THEN <<>> ELSE Head(ss) \o Flatten(Tail(ss))

\* [...new Set(keys)]: the first occurrence of every key, in order
Dedupe(s) ==
  LET F[i \in 0..Len(s)] ==
        IF i = 0 THEN <<>>
        ELSE IF s[i] \in Range(F[i-1]) THEN F[i-1] ELSE Append(F[i-1], s[i])
  IN  F[Len(s)]

-----------------------------------------------------------------------------
(* Items.  The memory driver's methods are synchronous and asyncCall calls *)
(* the driver before the engine's method returns, so every call reads or   *)
(* writes the Map at the call; what runs later only transforms the value   *)
(* that was read.                                                          *)

\* raw keys of setItem, getItem and removeItem
TestKeys == { <<"y">>, <<"y", "$">>, <<"/", "m", "/", "a">>, <<"m", ":", "x", ":", "b">> }

\* values of setItem: null, a boolean, a number, two strings, a JSON object
TestValues ==
  { NullValue, Val("boolean", "true"), Val("number", "1"), Val("string", "abc"),
    Val("string", "1"), Val("object", "{\"n\":1}") }

\* setItem calls: every value on one key, one value on the other keys
TestItems ==
  ({ <<"y">> } \X TestValues) \cup (TestKeys \X { Val("string", "abc") })

\* opts.maxDepth of getKeys
TestDepths == { Undefined, Num(0), Num(1) }

\* entries held by all driver instances together
RECURSIVE SumLen(_, _)
SumLen(dt, ds) ==
  IF ds = {} THEN 0
  ELSE LET d == CHOOSE x \in ds : TRUE
       IN  Len(dt[d]) + SumLen(dt, ds \ {d})

ItemCount(dt) == SumLen(dt, {d \in Drivers : dt[d] # <<>>})

\* the value getItem(key) resolves with
getItem(key) ==
  LET m == getMount(normalizeKey(key))
  IN  destr(memoryGetItem(data[m.driver], m.relativeKey))

\* the array getKeys(base, {maxDepth}) resolves with.  The call
\* filterKeyByDepth(key, base, opts.maxDepth) binds base to the parameter
\* depth; the third argument has no parameter to go to.
getKeys(rawBase, maxDepth) ==
  LET base == normalizeBaseKey(rawBase)
      ms == getMounts(base, FALSE)
      ofMount(i) ==
        LET keys == memoryGetKeys(data[ms[i].driver])
            abs == [j \in 1..Len(keys) |-> joinKeys(ms[i].mountpoint, keys[j])]
        IN  IF GetKeysFails(ms[i].driver) THEN <<>>   \* .catch(() => [])
            ELSE SelectSeq(abs, LAMBDA key : filterKeyByDepth(key, Str(base)))
      flat == Flatten([i \in 1..Len(ms) |-> ofMount(i)])
  IN  SelectSeq(Dedupe(flat), LAMBDA key : filterKeyByBase(key, base))

\* the memory driver offers setItemRaw, so the value is stored as it is
\* setItem(key, value): driver.setItemRaw when the driver has it, otherwise
\* asyncCall(driver.setItem, ...); every driver here that has setItem has
\* setItemRaw too
SetItem(key, value) ==
  LET m == getMount(normalizeKey(key))
  IN  /\ IF HasSetItemRaw(m.driver)
         THEN /\ data' = [data EXCEPT ![m.driver] = memorySetItemRaw(@, m.relativeKey, value)]
              /\ last' = [op |-> "setItem", key |-> key, value |-> value, err |-> ""]
         ELSE /\ data' = data
              /\ last' = [op |-> "setItem", key |-> key, value |-> value,
                          err |-> asyncCall(HasSetItem(m.driver))]
      /\ ItemCount(data') <= MaxItems
      /\ UNCHANGED <<mounts, mountpoints, watching, unwatch, watchListeners, closures, tasks,
                     watcher, watchLog>>

\* setItemRaw(key, value): as setItem, with serializeRaw in place of stringify
SetItemRaw(key, value) ==
  LET m == getMount(normalizeKey(key))
  IN  /\ IF HasSetItemRaw(m.driver)
         THEN /\ data' = [data EXCEPT ![m.driver] = memorySetItemRaw(@, m.relativeKey, value)]
              /\ last' = [op |-> "setItemRaw", key |-> key, value |-> value, err |-> ""]
         ELSE /\ data' = data
              /\ last' = [op |-> "setItemRaw", key |-> key, value |-> value,
                          err |-> asyncCall(HasSetItem(m.driver))]
      /\ ItemCount(data') <= MaxItems
      /\ UNCHANGED <<mounts, mountpoints, watching, unwatch, watchListeners, closures, tasks,
                     watcher, watchLog>>

GetItem(key) ==
  /\ last' = [op |-> "getItem", key |-> key, value |-> getItem(key)]
  /\ UNCHANGED <<mounts, mountpoints, watching, unwatch, watchListeners, closures, data, tasks,
                 watcher, watchLog>>

RemoveItem(key) ==
  LET m == getMount(normalizeKey(key))
  IN  /\ data' = IF ~HasRemoveItem(m.driver) THEN data
                 ELSE [data EXCEPT ![m.driver] = memoryRemoveItem(@, m.relativeKey)]
      /\ last' = [op |-> "removeItem", key |-> key, err |-> ""]
      /\ UNCHANGED <<mounts, mountpoints, watching, unwatch, watchListeners, closures, tasks,
                     watcher, watchLog>>

\* what Promise.all of the clear calls settles with: the rejection of a
\* driver's clear, if there is one
ClearError(cleared) == IF \E d \in cleared : HasClear(d) /\ ClearFails(d) THEN "Error" ELSE ""

\* clear(base): every mount under the base and every mount the base is under;
\* every driver's clear is called before anything is awaited
Clear(rawBase) ==
  LET ms == getMounts(normalizeBaseKey(rawBase), TRUE)
      cleared == {ms[i].driver : i \in 1..Len(ms)}
  IN  /\ data' = [d \in Drivers |->
                    IF d \in cleared /\ HasClear(d) /\ ~ClearFails(d)
                    THEN memoryClear(data[d]) ELSE data[d]]
      /\ last' = [op |-> "clear", base |-> rawBase, err |-> ClearError(cleared)]
      /\ UNCHANGED <<mounts, mountpoints, watching, unwatch, watchListeners, closures, tasks,
                     watcher, watchLog>>

\* mutant: the chain of a mount has no .catch
mountKeysError_NoCatch(d) == IF GetKeysFails(d) THEN "Error" ELSE ""

\* what the chain of one mount in getKeys is rejected with: nothing, its
\* .catch(() => []) puts [] in the place of a rejection
mountKeysError(d) == ""

\* what Promise.all of the chains of the mounts is rejected with
getKeysError(rawBase) ==
  LET ms == getMounts(normalizeBaseKey(rawBase), FALSE)
  IN  IF \E i \in 1..Len(ms) : mountKeysError(ms[i].driver) # "" THEN "Error" ELSE ""

GetKeys(rawBase, maxDepth) ==
  /\ LET err == getKeysError(rawBase)
     IN  last' = [op |-> "getKeys", base |-> rawBase, maxDepth |-> maxDepth, err |-> err,
                  result |-> IF err = "" THEN getKeys(rawBase, maxDepth) ELSE <<>>]
  /\ UNCHANGED <<mounts, mountpoints, watching, unwatch, watchListeners, closures, data, tasks,
                 watcher, watchLog>>

\* getMeta(key): null when the driver has no getMeta, otherwise what the
\* driver's getMeta returns
GetMeta(key) ==
  LET m == getMount(normalizeKey(key))
  IN  /\ last' = [op |-> "getMeta", key |-> key,
                  value |-> IF ~HasGetMeta(m.driver) THEN NullValue
                            ELSE Val("object", "meta")]
      /\ UNCHANGED <<mounts, mountpoints, watching, unwatch, watchListeners, closures, data,
                     tasks, watcher, watchLog>>

\* The engine as a key-value store: mounts and items, no watcher
NextKV ==
  \/ \E b \in TestBases, d \in UserDrivers : Mount(b, d)
  \/ \E b \in TestBases : Unmount(b)
  \/ \E i \in TestItems : SetItem(i[1], i[2])
  \/ \E k \in TestKeys : GetItem(k)
  \/ \E k \in TestKeys : RemoveItem(k)
  \/ \E b \in TestBases : Clear(b)
  \/ \E b \in TestBases, md \in TestDepths : GetKeys(b, md)

SpecKV == Init /\ [][NextKV]_vars

\* The engine with a driver mounted that has no method that writes
NextReadOnly ==
  \/ \E b \in {<<"/", "m">>}, d \in ReadOnlyDrivers \cup UserDrivers : Mount(b, d)
  \/ \E b \in {<<"/", "m">>} : Unmount(b)
  \/ \E i \in TestKeys \X { Val("string", "abc") } : SetItem(i[1], i[2])
  \/ \E i \in TestKeys \X { Val("string", "abc") } : SetItemRaw(i[1], i[2])
  \/ \E k \in TestKeys : RemoveItem(k)
  \/ \E b \in TestBases : Clear(b)
  \/ \E k \in TestKeys : GetMeta(k)

SpecReadOnly == Init /\ [][NextReadOnly]_vars

-----------------------------------------------------------------------------
(* getItems, setItems *)

MaxBatch == 2        \* items of one getItems or setItems call

\* the items arrays of getItems and setItems
BatchKeys == { <<"/", "m", "/", "a">>, <<"m", ":", "x", ":", "b">> }

BatchItem(key) == [key |-> key, value |-> Val("string", "abc")]

RECURSIVE SeqsUpTo(_, _)
SeqsUpTo(S, n) ==
  IF n = 0 THEN { <<>> }
  ELSE LET shorter == SeqsUpTo(S, n - 1)
       IN  shorter \cup { Append(q, x) : q \in shorter, x \in S }

TestBatches == SeqsUpTo({BatchItem(k) : k \in BatchKeys}, MaxBatch) \ { <<>> }

\* runBatch: the items grouped by the base of the mount they resolve to, in
\* the order in which the bases first occur
RECURSIVE runBatch(_, _)
runBatch(items, batches) ==
  IF items = <<>> THEN batches
  ELSE LET key == normalizeKey(Head(items).key)
           mount == getMount(key)
           item == [key |-> key, value |-> Head(items).value,
                    relativeKey |-> mount.relativeKey]
           batch == IF Has(batches, mount.base)
                    THEN Get(batches, mount.base)
                    ELSE [driver |-> mount.driver, base |-> mount.base, items |-> <<>>]
       IN  runBatch(Tail(items),
                    Put(batches, mount.base, [batch EXCEPT !.items = Append(@, item)]))

\* a call of a driver method made for the batch of a mount
Call(batch, method, items) ==
  [driver |-> batch.driver, base |-> batch.base, method |-> method,
   keys |-> [i \in 1..Len(items) |-> items[i].relativeKey],
   values |-> [i \in 1..Len(items) |-> items[i].value]]

\* mutant: the single-item calls are made after the batch call as well
setItemsBatch_Both(batch) ==
  (IF HasSetItems(batch.driver) THEN << Call(batch, "setItems", batch.items) >> ELSE <<>>)
  \o [i \in 1..Len(batch.items) |->
        Call(batch, IF HasSetItemRaw(batch.driver) THEN "setItemRaw" ELSE "setItem",
             << batch.items[i] >>)]

\* the driver calls of setItems for one batch
setItemsBatch(batch) ==
  IF HasSetItems(batch.driver)
  THEN << Call(batch, "setItems", batch.items) >>
  ELSE [i \in 1..Len(batch.items) |->
          Call(batch, IF HasSetItemRaw(batch.driver) THEN "setItemRaw" ELSE "setItem",
               << batch.items[i] >>)]

\* the driver calls of getItems for one batch
getItemsBatch(batch) ==
  IF HasGetItems(batch.driver)
  THEN << Call(batch, "getItems", batch.items) >>
  ELSE [i \in 1..Len(batch.items) |-> Call(batch, "getItem", << batch.items[i] >>)]

\* a Map after a sequence of entries was set
RECURSIVE PutAll(_, _, _)
PutAll(m, keys, values) ==
  IF keys = <<>> THEN m
  ELSE PutAll(memorySetItemRaw(m, Head(keys), Head(values)), Tail(keys), Tail(values))

\* the Maps after the drivers carried out a sequence of set calls
RECURSIVE Carry(_, _)
Carry(dt, calls) ==
  IF calls = <<>> THEN dt
  ELSE Carry([dt EXCEPT ![Head(calls).driver] = PutAll(@, Head(calls).keys, Head(calls).values)],
             Tail(calls))

SetItems(items) ==
  LET batches == runBatch(items, <<>>)
      calls == Flatten([i \in 1..Len(batches) |-> setItemsBatch(batches[i].v)])
  IN  /\ data' = Carry(data, calls)
      /\ ItemCount(data') <= MaxItems
      /\ last' = [op |-> "setItems", items |-> items, calls |-> calls]
      /\ UNCHANGED <<mounts, mountpoints, watching, unwatch, watchListeners, closures, tasks,
                     watcher, watchLog>>

\* what a driver call of getItems or getItem contributes to the result: the
\* absolute keys and the values read, run through destr
ResultOf(call) ==
  [i \in 1..Len(call.keys) |->
     [key |-> joinKeys(call.base, call.keys[i]),
      value |-> destr(memoryGetItem(data[call.driver], call.keys[i]))]]

RECURSIVE ResultsOf(_)
ResultsOf(calls) ==
  IF calls = <<>> THEN <<>> ELSE ResultOf(Head(calls)) \o ResultsOf(Tail(calls))

GetItems(items) ==
  LET batches == runBatch(items, <<>>)
      calls == Flatten([i \in 1..Len(batches) |-> getItemsBatch(batches[i].v)])
  IN  /\ last' = [op |-> "getItems", items |-> items, calls |-> calls,
                  result |-> ResultsOf(calls)]
      /\ UNCHANGED <<mounts, mountpoints, watching, unwatch, watchListeners, closures, data,
                     tasks, watcher, watchLog>>

\* The engine with batch calls: the root's memory driver has no batch
\* methods, the drivers that are mounted have them
NextBatch ==
  \/ \E b \in TestBases, d \in BatchDrivers : Mount(b, d)
  \/ \E b \in TestBases : Unmount(b)
  \/ \E its \in TestBatches : SetItems(its)
  \/ \E its \in TestBatches : GetItems(its)

SpecBatch == Init /\ [][NextBatch]_vars

-----------------------------------------------------------------------------
(* Events.  The watcher of a driver calls the callback it was given by      *)
(* driver.watch, which is the engine's onChange itself, with the event and *)
(* a path relative to the driver.                                          *)

\* paths a driver's watcher reports
EventKeys == { <<"x", "/", "b">> }

\* mutant: only the first listener is called
Deliver_FirstOnly(ls, rcv, call) ==
  IF ls = <<>> THEN rcv ELSE [rcv EXCEPT ![Head(ls)] = Append(@, call)]

\* the listeners called in turn with one call
RECURSIVE Deliver(_, _, _)
Deliver(ls, rcv, call) ==
  IF ls = <<>> THEN rcv
  ELSE Deliver(Tail(ls), [rcv EXCEPT ![Head(ls)] = Append(@, call)], call)

\* onChange(event, key); src and n tell which driver reported the event and
\* as which of its events
onChange(rcv, call) ==
  IF ~watching THEN rcv
  ELSE Deliver(watchListeners, rcv, [call EXCEPT !.key = normalizeKey(call.key)])

\* the watcher of driver d reports an event
Emit(d, event, key) ==
  /\ d \in watcher
  /\ emitted[d] < MaxEvents
  /\ emitted' = [emitted EXCEPT ![d] = @ + 1]
  /\ received' = onChange(received, [src |-> d, n |-> emitted[d] + 1,
                                     event |-> event, key |-> key])
  /\ last' = [op |-> "emit", driver |-> d, event |-> event, key |-> key]
  /\ UNCHANGED <<mounts, mountpoints, watching, unwatch, watchListeners, closures, data,
                 tasks, watcher, stopped>>

\* bases, keys and values of the calls made while events are followed
WatchBases == { <<"/", "m">> }
WatchItems == { << <<"/", "m", "/", "a">>, Val("string", "abc") >> }

\* The engine with listeners and a mounted driver that has a watcher, and
\* the events that reach the listeners
NextWatch ==
  \/ \E b \in WatchBases, d \in WatchDrivers : Mount(b, d)
  \/ \E cb \in Subscribers : Watch(cb)
  \/ \E cb \in Subscribers : UnwatchHandle(cb)
  \/ Unwatch
  \/ \E d \in WatchDrivers, k \in EventKeys : Emit(d, "update", k)
  \/ \E t \in BagToSet(tasks) : StartWatchStep(t)
  \/ \E t \in BagToSet(tasks) : StopWatchStep(t)
  \/ \E t \in BagToSet(tasks) : MountWatchStep(t)

SpecWatch == Init /\ [][NextWatch]_vars

\* The engine with a listener and items set on memory drivers, which have no
\* watcher
NextNotify ==
  \/ \E b \in WatchBases, d \in UserDrivers : Mount(b, d)
  \/ \E b \in WatchBases : Unmount(b)
  \/ \E cb \in Callbacks : Watch(cb)
  \/ Unwatch
  \/ \E i \in WatchItems : SetItem(i[1], i[2])
  \/ \E k \in BatchKeys : RemoveItem(k)
  \/ \E t \in BagToSet(tasks) : StartWatchStep(t)
  \/ \E t \in BagToSet(tasks) : StopWatchStep(t)
  \/ \E t \in BagToSet(tasks) : MountWatchStep(t)

SpecNotify == Init /\ [][NextNotify]_vars

-----------------------------------------------------------------------------
(* The overlay driver.  Its layers are memory drivers, layers[1] the top.   *)

\* options.layers
layers == <<6, 7, 8>>

OVERLAY_REMOVED == Val("string", "__OVERLAY_REMOVED__")

\* keys and values of the calls on the overlay and on its layers
OverlayKeys == { <<"k">> }
LayerValues == { Val("string", "a"), Val("string", "b"), OVERLAY_REMOVED, NullValue }

\* the loop of getItem over the layers that are left
RECURSIVE overlayGetItemFrom(_, _)
overlayGetItemFrom(ls, key) ==
  IF ls = <<>> THEN NullValue
  ELSE LET value == memoryGetItem(data[Head(ls)], key)
       IN  IF value = OVERLAY_REMOVED THEN NullValue
           ELSE IF value # NullValue THEN value
           ELSE overlayGetItemFrom(Tail(ls), key)

\* mutant: only the top layer is read
overlayGetItem_TopOnly(key) ==
  IF memoryGetItem(data[layers[1]], key) = OVERLAY_REMOVED THEN NullValue
  ELSE memoryGetItem(data[layers[1]], key)

\* overlay.getItem(key)
overlayGetItem(key) == overlayGetItemFrom(layers, key)

\* overlay.hasItem(key): the first layer that has the key decides
RECURSIVE overlayHasItemFrom(_, _)
overlayHasItemFrom(ls, key) ==
  IF ls = <<>> THEN FALSE
  ELSE IF memoryHasItem(data[Head(ls)], key)
  THEN ~(Head(ls) = layers[1] /\ memoryGetItem(data[layers[1]], key) = OVERLAY_REMOVED)
  ELSE overlayHasItemFrom(Tail(ls), key)

\* mutant: the tombstone in the top layer is not looked at
overlayHasItem_NoTombstone(key) == \E i \in 1..Len(layers) : memoryHasItem(data[layers[i]], key)

overlayHasItem(key) == overlayHasItemFrom(layers, key)

\* normalizeKey of drivers/utils: every separator becomes a colon, then one
\* leading and one trailing colon are dropped
driverNormalizeKey(key) == IF key = <<>> THEN <<>> ELSE TrimColons(ReplaceSlashes(key))

\* overlay.getKeys(base): the keys of all layers, normalized and without
\* duplicates, except those whose value in the top layer is the tombstone
overlayGetKeys(base) ==
  LET nested == [i \in 1..Len(layers) |->
                   [j \in 1..Len(memoryGetKeys(data[layers[i]])) |->
                      driverNormalizeKey(memoryGetKeys(data[layers[i]])[j])]]
      uniqueKeys == Dedupe(Flatten(nested))
  IN  SelectSeq(uniqueKeys,
                LAMBDA key : /\ memoryGetItem(data[layers[1]], key) # OVERLAY_REMOVED
                             /\ key # <<>>)

\* mutant: setItem writes every layer
overlaySetItem_AllLayers(key, value) ==
  [d \in Drivers |-> IF d \in LayerDrivers THEN memorySetItemRaw(data[d], key, value)
                     ELSE data[d]]

\* what the layers hold after layers[0].setItem(key, value)
overlaySetItem(key, value) ==
  [data EXCEPT ![layers[1]] = memorySetItemRaw(@, key, value)]

\* setItem of a layer, called by the owner of the layer
LayerSetItem(d, key, value) ==
  /\ data' = [data EXCEPT ![d] = memorySetItemRaw(@, key, value)]
  /\ last' = [op |-> "layer.setItem", driver |-> d, key |-> key, value |-> value]
  /\ UNCHANGED <<mounts, mountpoints, watching, unwatch, watchListeners, closures, tasks,
                 watcher, watchLog>>

\* removeItem of a layer, called by the owner of the layer
LayerRemoveItem(d, key) ==
  /\ data' = [data EXCEPT ![d] = memoryRemoveItem(@, key)]
  /\ last' = [op |-> "layer.removeItem", driver |-> d, key |-> key]
  /\ UNCHANGED <<mounts, mountpoints, watching, unwatch, watchListeners, closures, tasks,
                 watcher, watchLog>>

\* overlay.setItem(key, value): layers[0].setItem
OverlaySetItem(key, value) ==
  /\ data' = overlaySetItem(key, value)
  /\ last' = [op |-> "overlay.setItem", key |-> key, value |-> value]
  /\ UNCHANGED <<mounts, mountpoints, watching, unwatch, watchListeners, closures, tasks,
                 watcher, watchLog>>

\* overlay.removeItem(key): layers[0].setItem(key, OVERLAY_REMOVED)
OverlayRemoveItem(key) ==
  /\ data' = [data EXCEPT ![layers[1]] = memorySetItemRaw(@, key, OVERLAY_REMOVED)]
  /\ last' = [op |-> "overlay.removeItem", key |-> key]
  /\ UNCHANGED <<mounts, mountpoints, watching, unwatch, watchListeners, closures, tasks,
                 watcher, watchLog>>

OverlayGetItem(key) ==
  /\ last' = [op |-> "overlay.getItem", key |-> key, value |-> overlayGetItem(key)]
  /\ UNCHANGED <<mounts, mountpoints, watching, unwatch, watchListeners, closures, data, tasks,
                 watcher, watchLog>>

OverlayHasItem(key) ==
  /\ last' = [op |-> "overlay.hasItem", key |-> key, value |-> overlayHasItem(key)]
  /\ UNCHANGED <<mounts, mountpoints, watching, unwatch, watchListeners, closures, data, tasks,
                 watcher, watchLog>>

OverlayGetKeys(base) ==
  /\ last' = [op |-> "overlay.getKeys", base |-> base, value |-> overlayGetKeys(base)]
  /\ UNCHANGED <<mounts, mountpoints, watching, unwatch, watchListeners, closures, data, tasks,
                 watcher, watchLog>>

\* An overlay of three memory layers and the owners of the layers
NextOverlay ==
  \/ \E d \in LayerDrivers, k \in OverlayKeys, v \in LayerValues : LayerSetItem(d, k, v)
  \/ \E d \in LayerDrivers, k \in OverlayKeys : LayerRemoveItem(d, k)
  \/ \E k \in OverlayKeys, v \in LayerValues : OverlaySetItem(k, v)
  \/ \E k \in OverlayKeys : OverlayRemoveItem(k)
  \/ \E k \in OverlayKeys : OverlayGetItem(k)
  \/ \E k \in OverlayKeys : OverlayHasItem(k)
  \/ OverlayGetKeys(<<>>)

SpecOverlay == Init /\ [][NextOverlay]_vars

-----------------------------------------------------------------------------
(* The fs driver.  A file is known by its path relative to the base         *)
(* directory: the number of levels above the base and the segments below.   *)

FsDrivers == WatchDrivers \cup ReadOnlyFsDrivers

\* userOptions.readOnly
readOnly(d) == d \in ReadOnlyFsDrivers

\* mutant: only a key that ends in .. is refused
PATH_TRAVERSE_RE_TrailingOnly(key) == EndsWith(key, <<".", ".">>)

\* PATH_TRAVERSE_RE.test(key), /\.\.:|\.\.$/
PATH_TRAVERSE_RE(key) == Contains(key, <<".", ".", ":">>) \/ EndsWith(key, <<".", ".">>)

\* key.replace(/:/g, "/") as the segments of the path
RECURSIVE Segments(_)
Segments(s) ==
  LET cs == {i \in 1..Len(s) : s[i] = ":"}
  IN  IF cs = {} THEN <<s>>
      ELSE <<SubSeq(s, 1, Min(cs) - 1)>> \o Segments(Slice(s, Min(cs)))

\* join(base, path): empty and "." segments are dropped, ".." takes the last
\* segment away or goes one level above the base
RECURSIVE join(_, _)
join(p, segs) ==
  IF segs = <<>> THEN p
  ELSE LET x == Head(segs)
           q == IF x \in {<<>>, <<".">>} THEN p
                ELSE IF x # <<".", ".">> THEN [p EXCEPT !.segs = Append(@, x)]
                ELSE IF p.segs = <<>> THEN [p EXCEPT !.up = @ + 1]
                ELSE [p EXCEPT !.segs = SubSeq(@, 1, Len(@) - 1)]
       IN  join(q, Tail(segs))

\* r(key): the error thrown, or the path of the key's file
r(key) ==
  IF PATH_TRAVERSE_RE(key) THEN [err |-> "Invalid key", paths |-> {}]
  ELSE [err |-> "", paths |-> {join([up |-> 0, segs |-> <<>>], Segments(key))}]

\* the path r(key) returned
PathOf(key) == CHOOSE p \in r(key).paths : TRUE

\* storage.hasItem(key), routed to an fs driver: existsSync(r(key))
FsHasItem(key) ==
  LET m == getMount(normalizeKey(key))
      p == r(m.relativeKey)
  IN  /\ m.driver \in FsDrivers
      /\ last' = [op |-> "fs.hasItem", key |-> key, err |-> p.err, paths |-> p.paths,
                  value |-> p.err = "" /\ Has(data[m.driver], PathOf(m.relativeKey))]
      /\ UNCHANGED <<context, data, closures, tasks, watcher, watchLog>>

\* storage.getItem(key), routed to an fs driver: readFile(r(key), "utf8"),
\* null when there is no such file, then destr
FsGetItem(key) ==
  LET m == getMount(normalizeKey(key))
      p == r(m.relativeKey)
  IN  /\ m.driver \in FsDrivers
      /\ last' = [op |-> "fs.getItem", key |-> key, err |-> p.err, paths |-> p.paths,
                  value |-> IF p.err # "" THEN NullValue
                            ELSE destr(memoryGetItem(data[m.driver], PathOf(m.relativeKey)))]
      /\ UNCHANGED <<context, data, closures, tasks, watcher, watchLog>>

\* storage.getMeta(key), routed to an fs driver: fsp.stat(r(key))
FsGetMeta(key) ==
  LET m == getMount(normalizeKey(key))
      p == r(m.relativeKey)
  IN  /\ m.driver \in FsDrivers
      /\ last' = [op |-> "fs.getMeta", key |-> key, err |-> p.err, paths |-> p.paths,
                  value |-> IF p.err # "" THEN NullValue ELSE Val("object", "meta")]
      /\ UNCHANGED <<context, data, closures, tasks, watcher, watchLog>>

\* storage.setItem(key, value), routed to an fs driver: the driver's
\* setItemRaw returns at once when read-only, else writeFile(r(key), value)
FsSetItem(key, value) ==
  LET m == getMount(normalizeKey(key))
      p == IF readOnly(m.driver) THEN [err |-> "", paths |-> {}] ELSE r(m.relativeKey)
  IN  /\ m.driver \in FsDrivers
      /\ data' = IF p.paths = {} THEN data
                 ELSE [data EXCEPT ![m.driver] = Put(@, PathOf(m.relativeKey), value)]
      /\ last' = [op |-> "fs.setItem", key |-> key, err |-> p.err, paths |-> p.paths,
                  value |-> value]
      /\ UNCHANGED <<context, closures, tasks, watcher, watchLog>>

\* storage.removeItem(key), routed to an fs driver: the driver's removeItem
\* returns at once when read-only, else unlink(r(key))
FsRemoveItem(key) ==
  LET m == getMount(normalizeKey(key))
      p == IF readOnly(m.driver) THEN [err |-> "", paths |-> {}] ELSE r(m.relativeKey)
  IN  /\ m.driver \in FsDrivers
      /\ data' = IF p.paths = {} THEN data
                 ELSE [data EXCEPT ![m.driver] = Del(@, PathOf(m.relativeKey))]
      /\ last' = [op |-> "fs.removeItem", key |-> key, err |-> p.err, paths |-> p.paths,
                  value |-> NullValue]
      /\ UNCHANGED <<context, closures, tasks, watcher, watchLog>>

\* keys of the calls on a storage with an fs driver mounted at m
FsKeys ==
  { <<"m", "/", ".", ".", "/", "a">>, <<"m", ":", ".", ".", ":", "a">>,
    <<"m", "/", ".", ".", "/">>, <<"m", "/", ".", ".">>,
    <<"m", "/", "a", "/", ".", ".", "/", "b">>,
    <<"m", "/", "a", ".", ".", "b">>, <<"m", "/", ".", ".", "a">>, <<"m", "/", "a">> }

\* The engine with an fs driver mounted
NextFs ==
  \/ \E d \in FsDrivers : Mount(<<"/", "m">>, d)
  \/ \E k \in FsKeys : FsHasItem(k)
  \/ \E k \in FsKeys : FsGetItem(k)
  \/ \E k \in FsKeys : FsGetMeta(k)
  \/ \E k \in FsKeys : FsSetItem(k, Val("string", "abc"))
  \/ \E k \in FsKeys : FsRemoveItem(k)

SpecFs == Init /\ [][NextFs]_vars

-----------------------------------------------------------------------------
(* normalizeKey and normalizeBaseKey as functions of any string             *)

MaxLen == 3          \* characters of a key that is normalized

\* the characters the normalization looks at, a letter and a dot
KeyChars == { "a", ".", ":", "/", "\\", "?" }

KeyStrings == SeqsUpTo(KeyChars, MaxLen)

\* a string is about to be normalized
InitKeys ==
  /\ mounts = << [k |-> <<>>, v |-> RootDriver] >>
  /\ mountpoints = << <<>> >>
  /\ watching = FALSE
  /\ unwatch = <<>>
  /\ watchListeners = <<>>
  /\ closures = {}
  /\ data = [d \in Drivers |-> <<>>]
  /\ tasks = EmptyBag
  /\ last \in { [op |-> "key", key |-> k] : k \in KeyStrings }
  /\ watcher = {}
  /\ emitted = [d \in Drivers |-> 0]
  /\ received = [cb \in Subscribers |-> <<>>]
  /\ stopped = {}

\* normalizeKey(key) is called, on a string or on what a call returned
NormalizeKey ==
  /\ last.op \in {"key", "normalizeBaseKey"}
  /\ last' = [op |-> "normalizeKey",
              key |-> IF last.op = "key" THEN last.key ELSE last.result,
              result |-> normalizeKey(IF last.op = "key" THEN last.key ELSE last.result)]
  /\ UNCHANGED <<context, data, closures, tasks, watcher, watchLog>>

\* normalizeBaseKey(base) is called, on a string or on what a call returned
NormalizeBaseKey ==
  /\ last.op \in {"key", "normalizeKey"}
  /\ last' = [op |-> "normalizeBaseKey",
              key |-> IF last.op = "key" THEN last.key ELSE last.result,
              result |-> normalizeBaseKey(IF last.op = "key" THEN last.key ELSE last.result)]
  /\ UNCHANGED <<context, data, closures, tasks, watcher, watchLog>>

NextKeys == NormalizeKey \/ NormalizeBaseKey

SpecKeys == InitKeys /\ [][NextKeys]_vars

-----------------------------------------------------------------------------
(* The HTTP handler over the engine.  A request is answered in one step;   *)
(* the response is a status and a body, calls are the hook and the engine   *)
(* methods called, in order.                                                *)

Methods == {"GET", "HEAD", "PUT", "DELETE", "PATCH"}

\* mutant: every method is a read
MethodToTypeMap_AllRead(method) == "read"

\* MethodToTypeMap[event.method]
MethodToTypeMap(method) == IF method \in {"GET", "HEAD"} THEN "read" ELSE "write"

\* event.method in MethodToTypeMap
Supported(method) == method \in {"GET", "HEAD", "PUT", "DELETE"}

\* event.path of the requests
HttpPaths == { <<"/", "f", "/", "b">>, <<"/", "f", "/">>, <<"/", "c">> }

\* opts.authorize: not given, returns, throws an Error, throws an h3 error
\* with status 403
AuthHooks == {"none", "allow", "error", "http403"}

\* the request body of PUT
HttpBody == Val("string", "{\"n\":1}")

\* stringify(value): the text of a value
stringify(value) == Val("string", value.v)

\* k.replace(/:/g, "/")
ColonsToSlashes(k) == [i \in 1..Len(k) |-> IF k[i] = ":" THEN "/" ELSE k[i]]

isBaseKey(path) == LastChar(path) \in {":", "/"}

\* the key of a request
RequestKey(path) == IF isBaseKey(path) THEN normalizeBaseKey(path) ELSE normalizeKey(path)

\* what the drivers hold after storage.setItem(key, value)
setItemData(key, value) ==
  LET m == getMount(key)
  IN  [data EXCEPT ![m.driver] = memorySetItemRaw(@, m.relativeKey, value)]

\* what the drivers hold after storage.removeItem(key)
removeItemData(key) ==
  LET m == getMount(key)
  IN  [data EXCEPT ![m.driver] = memoryRemoveItem(@, m.relativeKey)]

\* what the drivers hold after storage.clear(base)
clearData(base) ==
  LET ms == getMounts(base, TRUE)
      cleared == {ms[i].driver : i \in 1..Len(ms)}
  IN  [d \in Drivers |->
        IF d \in cleared /\ HasClear(d) /\ ~ClearFails(d) THEN memoryClear(data[d]) ELSE data[d]]

\* storage.getMeta(key): null when the driver has no getMeta
getMeta(key) ==
  IF ~HasGetMeta(getMount(key).driver) THEN NullValue ELSE Val("object", "meta")

\* the call of opts.authorize
AuthorizeCall(method, key) == [fn |-> "authorize", type |-> MethodToTypeMap(method), key |-> key]

EngineCall(fn, key) == [fn |-> fn, type |-> "", key |-> key]

Response(status, body, calls) == [status |-> status, body |-> body, calls |-> calls]

\* setMetaHeaders(event, await storage.getMeta(key)) and the rest of GET and
\* HEAD: meta.mtime of null is a TypeError, which h3 answers with 500
WithMetaHeaders(key, body, calls) ==
  IF getMeta(key) = NullValue
  THEN Response(500, "TypeError", Append(calls, EngineCall("getMeta", key)))
  ELSE Response(200, body, Append(calls, EngineCall("getMeta", key)))

\* the handler after the authorization
HandleMethod(method, key, base, calls) ==
  IF method = "GET" /\ base
  THEN Response(200, [i \in 1..Len(getKeys(key, Undefined)) |->
                        ColonsToSlashes(getKeys(key, Undefined)[i])],
                Append(calls, EngineCall("getKeys", key)))
  ELSE IF method = "GET"
  THEN IF getItem(key) = NullValue
       THEN Response(404, "KV value not found", Append(calls, EngineCall("getItem", key)))
       ELSE WithMetaHeaders(key, stringify(getItem(key)),
                            Append(calls, EngineCall("getItem", key)))
  ELSE IF method = "HEAD"
  THEN IF ~memoryHasItem(data[getMount(key).driver], getMount(key).relativeKey)
       THEN Response(404, "KV value not found", Append(calls, EngineCall("hasItem", key)))
       ELSE WithMetaHeaders(key, "", Append(calls, EngineCall("hasItem", key)))
  ELSE IF method = "PUT"
  THEN Response(200, "OK", Append(calls, EngineCall("setItem", key)))
  ELSE Response(200, "OK",
                Append(calls, EngineCall(IF base THEN "clear" ELSE "removeItem", key)))

\* the response to a request
Respond(method, path, auth) ==
  LET key == RequestKey(path)
  IN  IF ~Supported(method) THEN Response(405, "Method Not Allowed", <<>>)
      ELSE IF auth = "none" THEN HandleMethod(method, key, isBaseKey(path), <<>>)
      ELSE IF auth = "error" THEN Response(401, "error", <<AuthorizeCall(method, key)>>)
      ELSE IF auth = "http403" THEN Response(403, "error", <<AuthorizeCall(method, key)>>)
      ELSE HandleMethod(method, key, isBaseKey(path), <<AuthorizeCall(method, key)>>)

\* one request is handled
Request(method, path, auth) ==
  LET res == Respond(method, path, auth)
      key == RequestKey(path)
      fns == {res.calls[i].fn : i \in 1..Len(res.calls)}
  IN  /\ data' = IF "setItem" \in fns THEN setItemData(key, HttpBody)
                 ELSE IF "removeItem" \in fns THEN removeItemData(key)
                 ELSE IF "clear" \in fns THEN clearData(key)
                 ELSE data
      /\ last' = [op |-> "request", method |-> method, path |-> path, auth |-> auth,
                  status |-> res.status, body |-> res.body, calls |-> res.calls]
      /\ UNCHANGED <<context, closures, tasks, watcher, watchLog>>

\* A server on a storage with the default in-memory driver
NextHttp == \E method \in Methods, path \in HttpPaths, auth \in AuthHooks :
              Request(method, path, auth)

SpecHttp == Init /\ [][NextHttp]_vars

-----------------------------------------------------------------------------
(* prefixStorage: a view of the engine under a prefix.  The view keeps no   *)
(* state; each of its methods calls the engine's method of the same name.  *)

\* base arguments of prefixStorage
Prefixes == { <<>>, <<"f", "o", "o">> }

\* keys given to the methods of a view
ViewKeys == { <<"x">>, <<"y">> }

ViewValues == { Val("string", "bar"), Val("string", "baz") }

\* the key a method of prefixStorage(storage, rawBase) calls storage with;
\* without a prefix the storage itself is returned
prefixKey(rawBase, key) ==
  LET base == normalizeBaseKey(rawBase)
  IN  IF base = <<>> THEN key ELSE base \o key

\* nsStorage.getKeys(key): storage.getKeys(base + key), base.length
\* characters cut off every key
prefixGetKeys(rawBase, key) ==
  LET base == normalizeBaseKey(rawBase)
      keys == getKeys(prefixKey(rawBase, key), Undefined)
  IN  IF base = <<>> THEN keys
      ELSE [i \in 1..Len(keys) |-> Slice(keys[i], Len(base))]

PrefixSetItem(rawBase, key, value) ==
  /\ data' = setItemData(normalizeKey(prefixKey(rawBase, key)), value)
  /\ ItemCount(data') <= MaxItems
  /\ last' = [op |-> "prefix.setItem", prefix |-> rawBase, key |-> key, value |-> value]
  /\ UNCHANGED <<mounts, mountpoints, watching, unwatch, watchListeners, closures, tasks,
                 watcher, watchLog>>

PrefixGetItem(rawBase, key) ==
  /\ last' = [op |-> "prefix.getItem", prefix |-> rawBase, key |-> key,
              value |-> getItem(prefixKey(rawBase, key))]
  /\ UNCHANGED <<mounts, mountpoints, watching, unwatch, watchListeners, closures, data, tasks,
                 watcher, watchLog>>

PrefixRemoveItem(rawBase, key) ==
  /\ data' = removeItemData(normalizeKey(prefixKey(rawBase, key)))
  /\ last' = [op |-> "prefix.removeItem", prefix |-> rawBase, key |-> key]
  /\ UNCHANGED <<mounts, mountpoints, watching, unwatch, watchListeners, closures, tasks,
                 watcher, watchLog>>

PrefixGetKeys(rawBase, key) ==
  /\ last' = [op |-> "prefix.getKeys", prefix |-> rawBase, key |-> key,
              result |-> prefixGetKeys(rawBase, key)]
  /\ UNCHANGED <<mounts, mountpoints, watching, unwatch, watchListeners, closures, data, tasks,
                 watcher, watchLog>>

\* Views of the engine under every prefix
NextPrefix ==
  \/ \E p \in Prefixes, k \in ViewKeys, v \in ViewValues : PrefixSetItem(p, k, v)
  \/ \E p \in Prefixes, k \in ViewKeys : PrefixGetItem(p, k)
  \/ \E p \in Prefixes, k \in ViewKeys : PrefixRemoveItem(p, k)
  \/ \E p \in Prefixes, k \in ViewKeys \cup {<<>>} : PrefixGetKeys(p, k)

SpecPrefix == Init /\ [][NextPrefix]_vars

-----------------------------------------------------------------------------
(* snapshot and restoreSnapshot.  A snapshot is an object: entries in      *)
(* insertion order.  The memory driver is synchronous, so the setItem      *)
(* calls of restoreSnapshot write in the order of the entries.             *)

\* bases given to snapshot and restoreSnapshot
SnapshotBases == { <<>>, <<"m">>, <<"/", "m">> }

\* snapshots to restore: keys without and with a separator, text values
SnapshotKeys == { <<"a">>, <<"d", ":", "f">> }

SnapshotValues == { Val("string", "1"), Val("string", "2") }

Snapshots ==
  { << >> } \cup
  { << [k |-> k, v |-> v] >> : k \in SnapshotKeys, v \in SnapshotValues } \cup
  { << [k |-> <<"a">>, v |-> v], [k |-> <<"d", ":", "f">>, v |-> w] >> :
      v \in SnapshotValues, w \in SnapshotValues }

\* serializeRaw(value): a string as it is, anything else in the envelope
serializeRaw(value) == IF value.t = "string" THEN value ELSE Val("base64", value.v)

\* storage.getItemRaw(key): the driver's getItemRaw
getItemRaw(key) ==
  LET m == getMount(normalizeKey(key))
  IN  memoryGetItem(data[m.driver], m.relativeKey)

\* the object snapshot(storage, base) resolves with
snapshot(rawBase) ==
  LET base == normalizeBaseKey(rawBase)
      keys == getKeys(base, Undefined)
  IN  [i \in 1..Len(keys) |->
         [k |-> Slice(keys[i], Len(base)), v |-> serializeRaw(getItemRaw(keys[i]))]]

\* what the drivers hold after the setItem calls of restoreSnapshot
RECURSIVE restoreData(_, _, _)
restoreData(dt, entries, base) ==
  IF entries = <<>> THEN dt
  ELSE LET m == getMount(normalizeKey(joinKeys(base, Head(entries).k)))
           set == [dt EXCEPT ![m.driver] = memorySetItemRaw(@, m.relativeKey, Head(entries).v)]
       IN  restoreData(set, Tail(entries), base)

RestoreSnapshot(snap, rawBase) ==
  /\ data' = restoreData(data, snap, normalizeBaseKey(rawBase))
  /\ ItemCount(data') <= MaxItems
  /\ last' = [op |-> "restoreSnapshot", snap |-> snap, base |-> rawBase]
  /\ UNCHANGED <<mounts, mountpoints, watching, unwatch, watchListeners, closures, tasks,
                 watcher, watchLog>>

Snapshot(rawBase) ==
  /\ last' = [op |-> "snapshot", base |-> rawBase, result |-> snapshot(rawBase)]
  /\ UNCHANGED <<mounts, mountpoints, watching, unwatch, watchListeners, closures, data, tasks,
                 watcher, watchLog>>

\* Snapshots taken and restored at the root and at a mounted memory driver
NextSnapshot ==
  \/ \E d \in UserDrivers : Mount(<<"/", "m">>, d)
  \/ \E s \in Snapshots, b \in SnapshotBases : RestoreSnapshot(s, b)
  \/ \E b \in SnapshotBases : Snapshot(b)

SpecSnapshot == Init /\ [][NextSnapshot]_vars

-----------------------------------------------------------------------------
(* Watching with a driver mounted whose watch method fails *)

\* bases the watching drivers are mounted at
FailBases == { <<"/", "m">>, <<"n">> }

\* The engine with drivers mounted that watch and drivers whose watch fails
NextWatchFail ==
  \/ \E b \in FailBases, d \in WatchDrivers \cup FailingWatchDrivers : Mount(b, d)
  \/ \E cb \in Subscribers : Watch(cb)
  \/ \E cb \in Subscribers : UnwatchHandle(cb)
  \/ \E t \in BagToSet(tasks) : StartWatchStep(t)
  \/ \E t \in BagToSet(tasks) : StopWatchStep(t)
  \/ \E t \in BagToSet(tasks) : MountWatchStep(t)

SpecWatchFail == Init /\ [][NextWatchFail]_vars

-----------------------------------------------------------------------------
(* Mounting and unmounting while the engine is watching *)

\* The engine with listeners coming and going while a memory driver or a
\* driver with a watcher is mounted and unmounted
NextMountWatch ==
  \/ \E b \in WatchBases, d \in WatchDrivers \cup UserDrivers : Mount(b, d)
  \/ \E b \in WatchBases : Unmount(b)
  \/ \E cb \in Callbacks : Watch(cb)
  \/ \E cb \in Callbacks : UnwatchHandle(cb)
  \/ Unwatch
  \/ \E t \in BagToSet(tasks) : StartWatchStep(t)
  \/ \E t \in BagToSet(tasks) : StopWatchStep(t)
  \/ \E t \in BagToSet(tasks) : MountWatchStep(t)

SpecMountWatch == Init /\ [][NextMountWatch]_vars

-----------------------------------------------------------------------------
(* Stopping and disposing with a driver mounted whose teardown fails *)

\* The engine with drivers mounted that watch, one of which fails to stop
NextTeardown ==
  \/ \E b \in FailBases, d \in WatchDrivers \cup FailingTeardownDrivers : Mount(b, d)
  \/ \E cb \in Callbacks : Watch(cb)
  \/ \E cb \in Callbacks : UnwatchHandle(cb)
  \/ Unwatch
  \/ Dispose
  \/ \E t \in BagToSet(tasks) : StartWatchStep(t)
  \/ \E t \in BagToSet(tasks) : StopWatchStep(t)
  \/ \E t \in BagToSet(tasks) : MountWatchStep(t)
  \/ \E t \in BagToSet(tasks) : DisposeStep(t)

SpecTeardown == Init /\ [][NextTeardown]_vars

-----------------------------------------------------------------------------
(* Clearing and listing with a driver mounted whose clear and getKeys fail *)

\* keys of the items: at the root and under the mounted base
FailingKeys == { <<"y">>, <<"z">>, <<"/", "m", "/", "a">> }

\* The engine with a memory driver or a failing driver mounted at /m
NextFailing ==
  \/ \E d \in FailingBackendDrivers \cup UserDrivers : Mount(<<"/", "m">>, d)
  \/ Unmount(<<"/", "m">>)
  \/ \E k \in FailingKeys : SetItem(k, Val("string", "abc"))
  \/ \E b \in TestBases : Clear(b)
  \/ \E b \in TestBases, md \in TestDepths : GetKeys(b, md)

SpecFailing == Init /\ [][NextFailing]_vars

-----------------------------------------------------------------------------
(* Properties of the mount table *)

\* normalized keys the routing is probed with
ProbeKeys ==
  { <<>>, <<"m">>, <<"y">>, <<"m", "x">>, <<"m", ":", "x">>, <<"m", ":", "y">>,
    <<"m", ":", "x", ":", "y">>, <<"y", ":", "m", ":", "x">> }

MountedBases == Range(KeysOf(mounts))

C2_OneRootMount ==
  /\ Cardinality({i \in 1..Len(mounts) : mounts[i].k = <<>>}) = 1
  /\ Cardinality({i \in 1..Len(mountpoints) : mountpoints[i] = <<>>}) = 1
  /\ Get(mounts, <<>>) \in Drivers

\* unmounting the root has just been refused while two more bases are mounted
C2_Witness ==
  /\ last.op = "unmount" /\ last.err = "Cannot unmount root"
  /\ Len(mounts) = 3 /\ Len(mountpoints) = 3

\* C3: in every reachable state the ordered list of mount bases is sorted by
\* descending base length and lists exactly the mounted bases.
C3_SortedByLength ==
  /\ \A i, j \in 1..Len(mountpoints) :
       i < j => Len(mountpoints[i]) >= Len(mountpoints[j])
  /\ Range(mountpoints) = MountedBases

\* the longer base was mounted after the shorter one, so the push alone would
\* leave the list unsorted
C3_Witness ==
  /\ KeysOf(mounts) = << <<>>, <<"m", ":">>, <<"m", ":", "x", ":">> >>
  /\ mountpoints = << <<"m", ":", "x", ":">>, <<"m", ":">>, <<>> >>

UniqueBases ==
  /\ \A i, j \in 1..Len(mounts) : mounts[i].k = mounts[j].k => i = j
  /\ \A i, j \in 1..Len(mountpoints) : mountpoints[i] = mountpoints[j] => i = j

\* C4: a mount call whose normalized base is empty or already mounted, or
\* whose driver is null, throws and leaves the mount map, the ordered base
\* list and the unwatch-handle map as they were; mount bases stay unique.
C4_FailedMountChangesNothing ==
  [][ /\ last'.op = "mount" =>
           \A b \in TestBases, d \in UserDrivers \cup {Null} :
              ( /\ Mount(b, d)
                /\ \/ normalizeBaseKey(b) = <<>>
                   \/ normalizeBaseKey(b) \in MountedBases
                   \/ d = Null )
              => /\ last'.err # ""
                 /\ UNCHANGED <<mounts, mountpoints, unwatch>>
      /\ UniqueBases' ]_vars

\* a mount onto a mounted base has just been refused while the engine is
\* watching and holds unwatch handles
C4_Witness ==
  /\ last.op = "mount" /\ last.err = "Cannot mount to an existing mountpoint"
  /\ Len(mounts) > 1
  /\ watching /\ unwatch # <<>>

\* C5: unmount of the root throws, unmount of a base that is not mounted
\* returns normally, and either way the mount map, the ordered base list and
\* the unwatch-handle map are unchanged.
C5_RefusedUnmountChangesNothing ==
  [][ last'.op = "unmount" =>
        \A b \in TestBases :
           ( /\ Unmount(b)
             /\ \/ normalizeBaseKey(b) = <<>>
                \/ normalizeBaseKey(b) \notin MountedBases )
           => /\ (last'.err # "") <=> (normalizeBaseKey(b) = <<>>)
              /\ UNCHANGED <<mounts, mountpoints, unwatch>> ]_vars

\* unmount of the root has just been refused while another base is mounted,
\* the engine is watching and a handle is stored for that base
C5_Witness ==
  /\ last.op = "unmount" /\ last.err = "Cannot unmount root"
  /\ watching
  /\ \E i \in 1..Len(unwatch) : unwatch[i].k # <<>> /\ unwatch[i].k \in MountedBases

-----------------------------------------------------------------------------
(* Properties of items and key listing *)

\* the absolute keys of the entries the mounted drivers hold
StoredKeys ==
  UNION { { joinKeys(mounts[i].k, data[mounts[i].v][j].k) : j \in 1..Len(data[mounts[i].v]) }
          : i \in 1..Len(mounts) }

\* C6 as stated: for any key k and any storable value v (null, boolean,
\* number, string, JSON object), once setItem(k, v) has returned, getItem(k)
\* yields a value equal to v.
C6_RoundTripAnyValue ==
  last.op = "setItem" => getItem(last.key) = last.value

\* C6, amended: once setItem(k, v) has returned, getItem(k) yields v when v is
\* null, a boolean, a number, a JSON object, or a string that the tolerant
\* parser returns unchanged.
C6_RoundTrip ==
  (last.op = "setItem" /\ destr(last.value) = last.value)
     => getItem(last.key) = last.value

\* a string was stored through a mount, over another value of the same key,
\* and is read back
C6_Witness ==
  /\ last.op = "setItem"
  /\ last.value = Val("string", "abc")
  /\ getMount(normalizeKey(last.key)).base = <<"m", ":">>
  /\ getItem(last.key) = last.value
  /\ Len(data[RootDriver]) > 0

\* C7: getKeys(base), called without maxDepth, returns exactly the stored
\* keys, across all mounts, whose absolute normalized key starts with the
\* normalized base (keys ending in "$" aside).
C7_KeysUnderBase ==
  (last.op = "getKeys" /\ last.maxDepth = Undefined)
     => Range(last.result) =
          { k \in StoredKeys : /\ StartsWith(k, normalizeBaseKey(last.base))
                               /\ LastChar(k) # "$" }

\* C8: every key returned by getKeys(base) starts with the normalized base
\* and does not end in "$", whatever the mounts and the drivers hold.
C8_KeysStartWithBase ==
  last.op = "getKeys" =>
    \A k \in Range(last.result) :
      /\ StartsWith(k, normalizeBaseKey(last.base))
      /\ LastChar(k) # "$"

\* getKeys has returned a key while a key ending in "$" is stored
C8_Witness ==
  /\ last.op = "getKeys"
  /\ last.result # <<>>
  /\ \E k \in StoredKeys : LastChar(k) = "$"

\* C9: getKeys on the root base with maxDepth = d returns exactly the stored
\* keys with at most d ":" separators (keys ending in "$" aside).
C9_KeysWithinDepth ==
  (last.op = "getKeys" /\ normalizeBaseKey(last.base) = <<>> /\ last.maxDepth.t = "number")
     => Range(last.result) =
          { k \in StoredKeys : Colons(k) <= last.maxDepth.v /\ LastChar(k) # "$" }

\* a driver is mounted at m over root data under m, and holds the key a
MountOverrides ==
  /\ KeysOf(mounts) = << <<>>, <<"m", ":">> >>
  /\ Get(mounts, <<"m", ":">>) # RootDriver
  /\ Has(data[RootDriver], <<"m", ":", "a">>)
  /\ KeysOf(data[Get(mounts, <<"m", ":">>)]) = << <<"a">> >>

\* C10: every key getKeys returns is held by the driver that getMount selects
\* for it; and with a driver mounted at m over root data under m, after a
\* key was set through the mount, getKeys() returns that key and no other.
C10_NoShadowedKeys ==
  last.op = "getKeys" =>
    /\ \A k \in Range(last.result) :
         memoryHasItem(data[getMount(k).driver], getMount(k).relativeKey)
    /\ (MountOverrides /\ normalizeBaseKey(last.base) = <<>> /\ last.maxDepth = Undefined)
          => last.result = << <<"m", ":", "a">> >>

\* the entries of a Map whose key is under a base
UnderBase(m, base) == SelectSeq(m, LAMBDA e : StartsWith(e.k, base))

\* C11: what the root driver held under a base B before a driver was mounted
\* at B is unaffected by what happens while B is mounted: mount(B, d),
\* setItem of a key under B, clear(B) and unmount(B) leave those entries as
\* they were, so that getKeys and getItem return for them what they returned
\* before the mount.
C11_RootDataSurvivesMount ==
  [][ ( \/ last'.op \in {"mount", "unmount"}
        \/ /\ last'.op = "setItem"
           /\ getMount(normalizeKey(last'.key)).base # <<>>
        \/ /\ last'.op = "clear"
           /\ normalizeBaseKey(last'.base) # <<>>
           /\ Has(mounts, normalizeBaseKey(last'.base)) )
      => \A base \in (MountedBases \cup MountedBases') \ {<<>>} :
           UnderBase(data'[RootDriver], base) = UnderBase(data[RootDriver], base) ]_vars

\* the items of a call that resolve to the mount at a base
ItemsAt(items, base) ==
  SelectSeq(items, LAMBDA it : getMount(normalizeKey(it.key)).base = base)

\* the calls made for the mount at a base
CallsAt(calls, base) == SelectSeq(calls, LAMBDA c : c.base = base)

\* C12: in one setItems or getItems call, for the mount of every base, the
\* driver's batch method is called exactly once with all items that resolve
\* to the mount when the driver has it, and otherwise the single-item method
\* is called once per item; never both, and no call is made for a mount that
\* no item resolves to.
C12_BatchOrSingle ==
  last.op \in {"setItems", "getItems"} =>
    \A base \in MountedBases :
      LET its == ItemsAt(last.items, base)
          cs == CallsAt(last.calls, base)
          d == Get(mounts, base)
          batched == IF last.op = "setItems" THEN HasSetItems(d) ELSE HasGetItems(d)
      IN  IF its = <<>> THEN cs = <<>>
          ELSE IF batched
          THEN /\ Len(cs) = 1
               /\ cs[1].method = last.op
               /\ Len(cs[1].keys) = Len(its)
          ELSE /\ Len(cs) = Len(its)
               /\ \A i \in 1..Len(cs) :
                    /\ cs[i].method \in {"setItem", "setItemRaw", "getItem"}
                    /\ Len(cs[i].keys) = 1

\* one setItems call with two items for a driver that has setItems
C12_Witness ==
  /\ last.op = "setItems"
  /\ \E base \in MountedBases :
       /\ HasSetItems(Get(mounts, base))
       /\ Len(ItemsAt(last.items, base)) = 2
       /\ Len(CallsAt(last.calls, base)) = 1

\* the bases a driver is mounted at
BasesOf(d) == { b \in MountedBases : Get(mounts, b) = d }

\* the last call a listener received
LastCall(cb) == received[cb][Len(received[cb])]

\* C13: when the watcher of a driver mounted at base m has just reported an
\* event with the path r, the call every listener received for it carries
\* the key m + r.
C13_EventKeyHasMountBase ==
  (last.op = "emit" /\ watching) =>
    \A cb \in Range(watchListeners), m \in BasesOf(last.driver) :
      LastCall(cb).key = m \o normalizeKey(last.key)

C15_SetItemNotifies ==
  [][ ( /\ last'.op = "setItem"
        /\ data' # data
        /\ watching
        /\ watchListeners # <<>>
        /\ ~HasWatch(getMount(normalizeKey(last'.key)).driver) )
      => \A cb \in Range(watchListeners) :
           /\ Len(received'[cb]) = Len(received[cb]) + 1
           /\ received'[cb][Len(received'[cb])].event = "update"
           /\ received'[cb][Len(received'[cb])].key = normalizeKey(last'.key) ]_vars

C17_OneHandlePerMount ==
  (watching /\ tasks = EmptyBag) =>
    { unwatch[i].k : i \in 1..Len(unwatch) } = MountedBases

\* the last step of a dispose() call is taken
DisposeCompletes ==
  \E t \in BagToSet(tasks) :
    /\ t.type = "dispose"
    /\ t.pc = "reset"
    /\ last'.op = "resume"
    /\ CopiesIn(t, tasks') < CopiesIn(t, tasks)

\* C18: when a dispose() call completes, the engine is in the fresh state:
\* the only mount is the root with an empty in-memory driver, there are no
\* listeners and no unwatch handles, and watching is false.
C18_DisposeEndsFresh ==
  [][ DisposeCompletes =>
        /\ mounts' = << [k |-> <<>>, v |-> RootDriver] >>
        /\ mountpoints' = << <<>> >>
        /\ data'[RootDriver] = <<>>
        /\ watchListeners' = <<>>
        /\ unwatch' = <<>>
        /\ watching' = FALSE ]_vars

\* C19: a setItem, setItemRaw or removeItem call whose key is routed to a
\* driver that has none of the methods that write, and a clear call,
\* resolve without an error and leave what that driver holds as it was;
\* getMeta of a key routed to a driver without getMeta resolves to null.
C19_MissingMethodIsSilent ==
  [][ /\ ( /\ last'.op \in {"setItem", "setItemRaw", "removeItem"}
           /\ getMount(normalizeKey(last'.key)).driver \in ReadOnlyDrivers )
         => (last'.err = "" /\ data' = data)
      /\ last'.op = "clear"
         => (last'.err = "" /\ \A d \in ReadOnlyDrivers : data'[d] = data[d])
      /\ ( /\ last'.op = "getMeta"
           /\ ~HasGetMeta(getMount(normalizeKey(last'.key)).driver) )
         => last'.value = NullValue ]_vars

\* the layers that have a key, top first
LayersWith(key) == SelectSeq(layers, LAMBDA d : memoryHasItem(data[d], key))

\* what a layer holds for a key is a value and not the tombstone
HoldsValue(d, key) == memoryGetItem(data[d], key) \notin {NullValue, OVERLAY_REMOVED}

\* C20 as stated: overlay getItem(K) returns the value the highest layer that
\* has K holds for it, null when that layer is the top and the value is the
\* tombstone.
C20_GetReturnsFirstHolder ==
  (last.op = "overlay.getItem" /\ LayersWith(last.key) # <<>>) =>
    LET d == Head(LayersWith(last.key))
        value == memoryGetItem(data[d], last.key)
    IN  last.value = IF d = layers[1] /\ value = OVERLAY_REMOVED THEN NullValue ELSE value

\* C20: overlay getItem(K) returns what the highest layer whose getItem(K) is
\* not null returns, null when that is the tombstone, whichever layer it is
\* in, and null when no layer returns a value.
C20_GetReturnsFirstNonNull ==
  last.op = "overlay.getItem" =>
    LET found == SelectSeq(layers, LAMBDA d : memoryGetItem(data[d], last.key) # NullValue)
    IN  last.value = IF found = <<>> THEN NullValue
                     ELSE IF memoryGetItem(data[Head(found)], last.key) = OVERLAY_REMOVED
                     THEN NullValue
                     ELSE memoryGetItem(data[Head(found)], last.key)

\* the top layer has not the key, the layer below has, and getItem returned
\* what that layer holds
C20_Witness ==
  /\ last.op = "overlay.getItem"
  /\ ~memoryHasItem(data[layers[1]], last.key)
  /\ HoldsValue(layers[2], last.key)
  /\ memoryHasItem(data[layers[3]], last.key)
  /\ last.value = memoryGetItem(data[layers[2]], last.key)
  /\ last.value # memoryGetItem(data[layers[3]], last.key)

\* the layers below the top
LowerLayers == { layers[i] : i \in 2..Len(layers) }

\* C21: a setItem or removeItem call on the overlay leaves every layer below
\* the top as it was.
C21_WritesTopLayerOnly ==
  [][ last'.op \in {"overlay.setItem", "overlay.removeItem"} =>
        \A d \in LowerLayers : data'[d] = data[d] ]_vars

\* the overlay set a value for a key that a lower layer holds with another
\* value
C21_Witness ==
  /\ last.op = "overlay.setItem"
  /\ memoryGetItem(data[layers[1]], last.key) = last.value
  /\ HoldsValue(layers[2], last.key)
  /\ memoryGetItem(data[layers[2]], last.key) # last.value

\* the top layer holds the tombstone for a key
Removed(key) == memoryGetItem(data[layers[1]], key) = OVERLAY_REMOVED

\* a key cannot be seen through the overlay
Hidden(key) ==
  /\ overlayGetItem(key) = NullValue
  /\ ~overlayHasItem(key)
  /\ key \notin Range(overlayGetKeys(<<>>))

\* C22: once removeItem(k) was called on the overlay, and as long as the top
\* layer is not written for k again, by the overlay's setItem or by its
\* owner, getItem(k) is null, hasItem(k) is false and getKeys has no k,
\* whatever is done to the lower layers.
C22_RemovedKeyIsHidden ==
  [][ \A key \in OverlayKeys :
        ( \/ (last'.op = "overlay.removeItem" /\ last'.key = key)
          \/ /\ Removed(key)
             /\ ~(last'.op = "overlay.setItem" /\ last'.key = key)
             /\ ~( /\ last'.op \in {"layer.setItem", "layer.removeItem"}
                   /\ last'.driver = layers[1] /\ last'.key = key) )
        => (Removed(key)' /\ Hidden(key)') ]_vars

\* a lower layer was given a value for a key the overlay removed
C22_Witness ==
  /\ last.op = "layer.setItem"
  /\ last.driver = layers[2]
  /\ Removed(last.key)
  /\ HoldsValue(layers[2], last.key)
  /\ HoldsValue(layers[3], last.key)

\* C23: normalizing what normalizeKey returned gives it back unchanged, and
\* so does normalizeBaseKey on what normalizeBaseKey returned.
C23_NormalizeIdempotent ==
  /\ last.op = "normalizeKey" => normalizeKey(last.result) = last.result
  /\ last.op = "normalizeBaseKey" => normalizeBaseKey(last.result) = last.result

\* a string with separators at its ends was normalized to something else
C23_Witness ==
  /\ last.op = "normalizeKey"
  /\ Len(last.key) = MaxLen
  /\ last.key[1] = "/"
  /\ last.key[Len(last.key)] = ":"
  /\ last.result = <<"a">>

\* C24: what normalizeKey returns has no colon at either end, no slash, no
\* backslash, no "..:" in it and no ".." at its end.
C24_NormalizedKeyShape ==
  last.op = "normalizeKey" =>
    /\ ~StartsWith(last.result, <<":">>)
    /\ ~EndsWith(last.result, <<":">>)
    /\ ~Contains(last.result, <<"/">>)
    /\ ~Contains(last.result, <<"\\">>)
    /\ ~Contains(last.result, <<".", ".", ":">>)
    /\ ~EndsWith(last.result, <<".", ".">>)

\* the operations of the engine that an fs driver answers
FsOps == {"fs.hasItem", "fs.getItem", "fs.getMeta", "fs.setItem", "fs.removeItem"}

\* the key a call was routed with, relative to its mount
RoutedKey(key) == getMount(normalizeKey(key)).relativeKey

\* a key has a parent segment in the sense of the fs driver
Traverses(key) == Contains(key, <<".", ".", ":">>) \/ EndsWith(key, <<".", ".">>)

\* no file above the base directory exists or was looked at
InsideBase ==
  /\ \A p \in last.paths : p.up = 0
  /\ \A d \in FsDrivers : \A i \in 1..Len(data[d]) : data[d][i].k.up = 0

\* C25 as stated: every operation on a key that has a parent segment fails
\* with Invalid key; no operation reaches a path outside the base directory;
\* a key with dots inside a segment is accepted and getItem returns what
\* setItem stored for it.
C25_TraversalRefused ==
  last.op \in FsOps =>
    /\ InsideBase
    /\ IF Traverses(RoutedKey(last.key))
       THEN last.err = "Invalid key" /\ last.paths = {}
       ELSE last.err = ""

\* C25: as stated, except that setItem and removeItem on a read-only fs
\* driver resolve without an error, and without reaching any path, also for
\* a key that has a parent segment.
C25_TraversalRefusedUnlessReadOnly ==
  last.op \in FsOps =>
    LET d == getMount(normalizeKey(last.key)).driver
    IN  /\ InsideBase
        /\ IF readOnly(d) /\ last.op \in {"fs.setItem", "fs.removeItem"}
           THEN last.err = "" /\ last.paths = {}
           ELSE IF Traverses(RoutedKey(last.key))
           THEN last.err = "Invalid key" /\ last.paths = {}
           ELSE /\ last.err = ""
                /\ last.paths # {}
                /\ (last.op = "fs.setItem" \/ (last.op = "fs.getItem" /\ last.value # NullValue))
                     => destr(memoryGetItem(data[d], PathOf(RoutedKey(last.key))))
                          = Val("string", "abc")

\* a key with .. inside a segment was stored and read back
C25_Witness ==
  /\ last.op = "fs.getItem"
  /\ last.key = <<"m", "/", "a", ".", ".", "b">>
  /\ last.value = Val("string", "abc")
  /\ last.err = ""

\* C26: for a request with a supported method and a hook given, the first
\* call is the hook's, with the request's normalized key and the type read
\* for GET and HEAD and write for PUT and DELETE; when the hook throws, the
\* status is 401, or the status of the h3 error thrown, and the engine is
\* not called and holds what it held.
C26_AuthorizedBeforeStorage ==
  [][ (last'.op = "request" /\ Supported(last'.method) /\ last'.auth # "none") =>
        /\ last'.calls # <<>>
        /\ last'.calls[1] =
             [fn |-> "authorize", key |-> RequestKey(last'.path),
              type |-> IF last'.method \in {"GET", "HEAD"} THEN "read" ELSE "write"]
        /\ \A i \in 2..Len(last'.calls) : last'.calls[i].fn # "authorize"
        /\ last'.auth = "error" => (last'.status = 401 /\ Len(last'.calls) = 1 /\ data' = data)
        /\ last'.auth = "http403" => (last'.status = 403 /\ Len(last'.calls) = 1 /\ data' = data)
        /\ last'.auth = "allow" => Len(last'.calls) > 1 ]_vars

\* a DELETE of a stored key was refused by the hook
C26_Witness ==
  /\ last.op = "request"
  /\ last.method = "DELETE"
  /\ last.auth = "error"
  /\ last.status = 401
  /\ memoryHasItem(data[RootDriver], normalizeKey(last.path))

\* C27: on a server over the default in-memory driver, GET of a stored leaf
\* key is answered with the stored body; GET of a base is answered with the
\* stored keys under it, with slashes; after DELETE of the base no key under
\* it is stored and GET of the leaf is answered with 404.
C27_PutGetListDelete ==
  (last.op = "request" /\ last.auth \in {"none", "allow"} /\ last.method = "GET") =>
    IF isBaseKey(last.path)
    THEN /\ last.status = 200
         /\ \A k \in Range(memoryGetKeys(data[RootDriver])) :
              StartsWith(k, RequestKey(last.path)) => ColonsToSlashes(k) \in Range(last.body)
    ELSE IF memoryHasItem(data[RootDriver], RequestKey(last.path))
    THEN last.status = 200 /\ last.body = HttpBody
    ELSE last.status = 404

-----------------------------------------------------------------------------
(* Properties of prefixStorage, snapshots and the start of watching *)

\* the keys the root driver holds under the prefix, the prefix cut off
StoredUnder(rawBase) ==
  LET base == normalizeBaseKey(rawBase)
      keys == KeysOf(data[RootDriver])
  IN  { Slice(k, Len(base)) : k \in { x \in Range(keys) : StartsWith(x, base) } }

\* C28: getKeys() of a view under a non-empty prefix returns the keys stored
\* under the prefix with the prefix cut off: after x and y were set through
\* a view on foo, getKeys() of the view returns x and y.
C28_ViewListsItsKeys ==
  (last.op = "prefix.getKeys" /\ last.key = <<>> /\ normalizeBaseKey(last.prefix) # <<>>)
    => Range(last.result) = StoredUnder(last.prefix)

\* C29: snapshot(storage, base) right after restoreSnapshot(storage, snap,
\* base) returns an object that has every entry of snap, for the root base
\* and for the base of a mounted driver.
C29_SnapshotHasRestored ==
  [][(last.op = "restoreSnapshot" /\ last'.op = "snapshot"
      /\ normalizeBaseKey(last'.base) = normalizeBaseKey(last.base))
     => Range(last.snap) \subseteq Range(last'.result)]_vars

\* the mountpoints of drivers whose watch method works
Watchable == { i \in 1..Len(mounts) : HasWatch(mounts[i].v) /\ ~WatchFails(mounts[i].v) }

\* the engine is watching and nothing of startWatch or mount is pending
Started == watching /\ tasks = EmptyBag /\ watchListeners # <<>>

\* C30: when a mounted driver's watch fails while watching starts, every
\* other mounted driver with a watch method is subscribed once startWatch
\* is over, and its handle is stored.
C30_OthersStillWatched ==
  (Started /\ \E i \in 1..Len(mounts) : WatchFails(mounts[i].v))
    => \A i \in Watchable : mounts[i].v \in watcher /\ Has(unwatch, mounts[i].k)

-----------------------------------------------------------------------------
(* Properties of starting, stopping and tearing down *)

\* C31: watch(cb) called while the engine is watching calls no driver and
\* starts nothing; unwatch() called while the engine is not watching calls
\* no driver and leaves the state of the engine as it is.
C31_StartStopIdempotent ==
  [][ /\ (watching /\ last'.op = "watch")
         => (watcher' = watcher /\ tasks' = tasks /\ unwatch' = unwatch /\ watching')
      /\ (~watching /\ last'.op = "unwatch")
         => UNCHANGED <<mounts, mountpoints, watching, unwatch, watchListeners, tasks,
                        watcher>> ]_vars

\* a mountWatch continuation resumes with the handle of driver.watch
MountWatchResolves(t) ==
  /\ t.type = "mountWatch"
  /\ last'.op = "resume"
  /\ CopiesIn(t, tasks') < CopiesIn(t, tasks)

\* C32: mount(base, driver) called while watching calls driver.watch, and
\* the handle is stored under base once the call has resolved;
\* unmount(base) called while watching on a mounted base stops the watcher
\* of the driver mounted there and removes its handle and the mount.
C32_MountAndUnmountWhileWatching ==
  [][ /\ (watching /\ last'.op = "mount" /\ last'.err = "")
         => \A i \in 1..Len(mounts') :
              (~Has(mounts, mounts'[i].k) /\ HasWatch(mounts'[i].v))
                => mounts'[i].v \in watcher'
      /\ \A t \in BagToSet(tasks) :
           MountWatchResolves(t) => (Has(unwatch', t.base) /\ Get(unwatch', t.base) = t.h)
      /\ (watching /\ last'.op = "unmount")
         => \A i \in 1..Len(mounts) :
              mounts[i].k \in { normalizeBaseKey(b) : b \in WatchBases }
                => /\ ~Has(mounts', mounts[i].k)
                   /\ ~Has(unwatch', mounts[i].k)
                   /\ mounts[i].v \notin watcher' ]_vars

\* C33: the rejection of a driver's unwatch function never reaches the
\* caller of the unwatch function of watch(), of unwatch() or of dispose(),
\* and when a stop ends with it, the watchers of the other mounted drivers
\* are closed all the same.
C33_TeardownErrorsNotRaised ==
  last.op = "reject"
    => /\ last.caught
       /\ \A i \in 1..Len(mounts) :
            (HasWatch(mounts[i].v) /\ ~TeardownFails(mounts[i].v)) => mounts[i].v \notin watcher

\* the drivers clear(base) calls clear of
Affected(rawBase) ==
  LET ms == getMounts(normalizeBaseKey(rawBase), TRUE)
  IN  { ms[i].driver : i \in 1..Len(ms) }

\* C34: clear(base) resolves when the clear of a mount's driver fails, and
\* every other driver it reaches is cleared.
C34_ClearSurvivesFailure ==
  [][ last'.op = "clear"
        => /\ last'.err = ""
           /\ \A d \in Affected(last'.base) : ~ClearFails(d) => data'[d] = <<>> ]_vars

\* the keys the mounts under a base hold whose driver's getKeys works, as
\* getKeys(base) lists them
ListedWithout(rawBase) ==
  LET base == normalizeBaseKey(rawBase)
      ms == getMounts(base, FALSE)
      held(i) == { joinKeys(ms[i].mountpoint, k) : k \in Range(KeysOf(data[ms[i].driver])) }
      working == { i \in 1..Len(ms) : ~GetKeysFails(ms[i].driver) }
  IN  { k \in UNION { held(i) : i \in working } :
          filterKeyByDepth(k, Str(base)) /\ filterKeyByBase(k, base) }

\* C35: getKeys(base) resolves when the getKeys of a mount's driver fails,
\* and returns what the other mounts contribute and nothing of that mount.
C35_GetKeysSurvivesFailure ==
  (last.op = "getKeys" /\ \E d \in Mounted : GetKeysFails(d))
    => /\ last.err = ""
       /\ Range(last.result) = ListedWithout(last.base)

\* getKeys("") lists a key of the root while a failing driver that holds an
\* item is mounted
C35_Witness ==
  /\ last.op = "getKeys"
  /\ last.result # <<>>
  /\ \E d \in Mounted : GetKeysFails(d) /\ data[d] # <<>>

\* C36: overlay.setItem(key, "__OVERLAY_REMOVED__") is refused and leaves
\* the top layer as it is, so that only removeItem masks a key.
C36_TombstoneNotStorable ==
  [][ (last'.op = "overlay.setItem" /\ last'.value = OVERLAY_REMOVED)
        => data'[layers[1]] = data[layers[1]] ]_vars

\* C37: clear(base) leaves every key that is not under base as it was:
\* getItem of such a key returns what it returned before the call.
C37_ClearKeepsOtherKeys ==
  [][ last'.op = "clear"
        => \A k \in TestKeys :
             ~StartsWith(normalizeKey(k), normalizeBaseKey(last'.base))
               => (getItem(k))' = getItem(k) ]_vars

\* C38: once nothing is pending, a driver's watcher runs only if the driver
\* is mounted and the engine is watching, every stored handle belongs to a
\* mounted base, and no handle is stored while the engine is not watching.
C38_NoWatcherLeaked ==
  tasks = EmptyBag
    => /\ \A d \in watcher : watching /\ d \in Mounted
       /\ \A i \in 1..Len(unwatch) : unwatch[i].k \in MountedBases
       /\ ~watching => unwatch = <<>>

\* C39: the unwatch function that watch(cb) resolved with takes off cb and
\* nothing else: every other listener stays registered, and the engine goes
\* on watching for it.
C39_HandleRemovesOnlyItsCallback ==
  [][ last'.op = "unwatchHandle"
        => \A cb \in Range(watchListeners) \ {last'.cb} :
             /\ cb \in Range(watchListeners')
             /\ watching => watching' ]_vars

\* C40: once nothing is pending, a registered listener means that the
\* engine is watching and that every mounted driver with a watch method has
\* its watcher running.
C40_ListenersAreServed ==
  (tasks = EmptyBag /\ watchListeners # <<>>)
    => /\ watching
       /\ \A i \in Watchable : mounts[i].v \in watcher

====
